---- MODULE Spec2Model ----
(***************************************************************************)
(* A model of the pipelined IRRd query engine of irrc: the send queue      *)
(* (pipeline/queue.rs), the Pipeline, Response and Responses state         *)
(* machines (pipeline/mod.rs), the wire framing parsers (parse.rs) and the *)
(* query catalogue (query.rs).  Bytes are one-character strings; the read  *)
(* buffer, the socket and the commands are sequences of bytes.             *)
(***************************************************************************)
EXTENDS Integers, Sequences, FiniteSets, TLC

(***************************************************************************)
(* Bounds of the model.                                                    *)
(***************************************************************************)
\* queries the caller pushes in one run of Spec
MaxPush == 2
\* bytes the server may have written that the client has not read yet
NetCap == 9
\* transport failures (failed socket reads or writes) in one run
MaxIoErr == 1
\* queries the caller pushes in one run of SpecBulk
BulkMaxPush == 903
\* queries the caller pushes, and pops, in one run of SpecWindow
WindowMaxPush == 1002
WindowMaxPop == 1
\* bytes the server has written and the client has not read, in SpecWindow
WindowRoom == 2
\* queries the caller pushes, and then pops, in one run of SpecDrain
DrainMaxPush == 902
DrainMaxPop == 2
\* bytes the server has written and the client has not read, in SpecDrain
DrainRoom == 9
\* bytes the server has written and the client has not read, in SpecParagraph
ParaRoom == 17
\* the capacity of the read buffer the caller asks of pipeline_with_capacity
Capacity == 12

\* the read buffer of the pipeline that Connection::connect uses
ConnectCapacity == 8

\* the pushes of a run of connect and the first pipeline after it
ConnectMaxPush == 3

\* the bytes that follow a preamble in the inputs of the status parser
MaxTail == 2
\* the length of the inputs of the word parser
MaxWordLen == 4
\* the digits of a declared length, and the bytes of an error message, in
\* the preambles whose prefixes are parsed
MaxDigits == 3
MaxMsg == 2

\* the reads without a byte that one call is followed through
MaxEmptyReads == 2

\* the pushes of a run in which the server may close the connection
EofMaxPush == 2
\* the capacity of the read buffer in SpecExample, and the bytes the server
\* may have written there that the client has not read yet
ExCapacity == 32
ExRoom == 48

(***************************************************************************)
(* Program constants.                                                      *)
(***************************************************************************)
\* Queue::default: max_in_flight
MaxInFlight == 1000
\* Queue::default: min_batch
MinBatch == 100

NL == "\n"
SP == " "

Min(S) == CHOOSE x \in S : \A y \in S : x <= y

Range(s) == {s[i] : i \in 1..Len(s)}

Drop(s, n) == SubSeq(s, n + 1, Len(s))

Take(s, n) == SubSeq(s, 1, n)

(***************************************************************************)
(* parse.rs: the streaming parsers.  Each returns a record with            *)
(*   st = "ok" (n bytes consumed, value val), "incomplete" or "error".     *)
(***************************************************************************)
Incomplete == [st |-> "incomplete"]

ParseError == [st |-> "error"]

Done(n, v) == [st |-> "ok", n |-> n, val |-> v]

Digits == {"0", "1", "2", "3", "4", "5", "6", "7", "8", "9"}

DigitVal(b) ==
    CASE b = "0" -> 0 [] b = "1" -> 1 [] b = "2" -> 2 [] b = "3" -> 3
      [] b = "4" -> 4 [] b = "5" -> 5 [] b = "6" -> 6 [] b = "7" -> 7
      [] b = "8" -> 8 [] b = "9" -> 9

\* str::parse::<usize> of a run of decimal digits
RECURSIVE ParseUsize(_)
ParseUsize(ds) ==
    IF ds = <<>> THEN 0
    ELSE 10 * ParseUsize(Take(ds, Len(ds) - 1)) + DigitVal(ds[Len(ds)])

\* the number of leading bytes of s that belong to S
LeadIn(s, S) ==
    LET out == {i \in 1..Len(s) : s[i] \notin S}
    IN  IF out = {} THEN Len(s) ELSE Min(out) - 1

\* the number of leading bytes of s that do not belong to S
LeadOut(s, S) ==
    LET hit == {i \in 1..Len(s) : s[i] \in S}
    IN  IF hit = {} THEN Len(s) ELSE Min(hit) - 1

\* a faulty variant: the second is tried whenever the first did not succeed
AltEager(r1, r2) == IF r1.st # "ok" THEN r2 ELSE r1

\* nom::branch::alt over two results: the second is tried only when the
\* first is a recoverable error
Alt(r1, r2) == IF r1.st = "error" THEN r2 ELSE r1

resp_ok_data(input) ==
    IF input = <<>> THEN Incomplete
    ELSE IF input[1] # "A" THEN ParseError
    ELSE LET rem == Tail(input)
             d == LeadIn(rem, Digits)
         IN  IF rem = <<>> THEN Incomplete
             ELSE IF d = 0 THEN ParseError
             ELSE IF d = Len(rem) THEN Incomplete
             ELSE IF rem[d + 1] # NL THEN ParseError
             ELSE Done(d + 2, [ok |-> TRUE, data |-> TRUE,
                               len |-> ParseUsize(Take(rem, d))])

\* a faulty variant: the newline after the status character is left unread
CharNewlineUnread(input, c, v) ==
    IF input = <<>> THEN Incomplete
    ELSE IF input[1] # c THEN ParseError
    ELSE IF Len(input) = 1 THEN Incomplete
    ELSE IF input[2] # NL THEN ParseError
    ELSE Done(1, v)

\* terminated(char(c), newline)
CharNewline(input, c, v) ==
    IF input = <<>> THEN Incomplete
    ELSE IF input[1] # c THEN ParseError
    ELSE IF Len(input) = 1 THEN Incomplete
    ELSE IF input[2] # NL THEN ParseError
    ELSE Done(2, v)

resp_ok_none(input) ==
    CharNewline(input, "C", [ok |-> TRUE, data |-> FALSE, len |-> 0])

resp_err_not_found(input) ==
    CharNewline(input, "D", [ok |-> FALSE, err |-> "KeyNotFound", msg |-> <<>>])

resp_err_not_unique(input) ==
    CharNewline(input, "E", [ok |-> FALSE, err |-> "KeyNotUnique", msg |-> <<>>])

resp_err_other(input) ==
    IF input = <<>> THEN Incomplete
    ELSE IF input[1] # "F" THEN ParseError
    ELSE IF Len(input) = 1 THEN Incomplete
    ELSE IF input[2] # SP THEN ParseError
    ELSE LET rem == Drop(input, 2)
             m == LeadOut(rem, {NL})
         IN  IF m = Len(rem) THEN Incomplete
             ELSE Done(m + 3, [ok |-> FALSE, err |-> "Other", msg |-> Take(rem, m)])

response_status(input) ==
    Alt(resp_ok_data(input),
    Alt(resp_ok_none(input),
    Alt(resp_err_not_found(input),
    Alt(resp_err_not_unique(input),
        resp_err_other(input)))))

EOR == <<NL, "C", NL>>

\* bytes::streaming::tag
Tag(input, t) ==
    LET m == IF Len(input) < Len(t) THEN Len(input) ELSE Len(t)
    IN  IF Take(input, m) # Take(t, m) THEN ParseError
        ELSE IF Len(input) < Len(t) THEN Incomplete
        ELSE Done(Len(t), t)

end_of_response(input) == Tag(input, EOR)

\* bytes::streaming::take_until: the first position at which t occurs
FindSub(input, t) ==
    LET at == {i \in 0..(Len(input) - Len(t)) : SubSeq(input, i + 1, i + Len(t)) = t}
    IN  IF at = {} THEN -1 ELSE Min(at)

TakeUntil(input, t) ==
    LET i == FindSub(input, t)
    IN  IF i < 0 THEN Incomplete ELSE Done(i, Take(input, i))

\* a faulty variant: a word ends at a newline only
till_line_end(input) ==
    LET w == LeadOut(input, {NL})
    IN  IF input = <<>> THEN Incomplete
        ELSE IF w = 0 THEN ParseError
        ELSE IF w = Len(input) THEN Incomplete
        ELSE Done(w, Take(input, w))

\* take_till1(|b| b == b' ' || b == b'\n')
till_word_end(input) ==
    LET w == LeadOut(input, {SP, NL})
    IN  IF input = <<>> THEN Incomplete
        ELSE IF w = 0 THEN ParseError
        ELSE IF w = Len(input) THEN Incomplete
        ELSE Done(w, Take(input, w))

\* character::streaming::space0: spaces and tabs, up to a byte that is neither
space0(input) ==
    LET s == LeadIn(input, {SP, "\t"})
    IN  IF s = Len(input) THEN Incomplete ELSE Done(s, Take(input, s))

word(input) ==
    LET w == till_word_end(input)
    IN  IF w.st # "ok" THEN w
        ELSE LET s == space0(Drop(input, w.n))
             IN  IF s.st # "ok" THEN s ELSE Done(w.n + s.n, w.val)

all(input) == TakeUntil(input, EOR)

noop(input) == Done(0, <<>>)

take_paragraph(input) ==
    IF input = <<>> THEN Incomplete
    ELSE LET o == IF input[1] = NL THEN 1 ELSE 0
             rem == Drop(input, o)
             p == TakeUntil(rem, <<NL, NL>>)
             e == TakeUntil(rem, EOR)
         IN  IF p.st = "ok" THEN Done(o + p.n + 1, p.val)
             ELSE IF e.st = "ok" THEN Done(o + e.n, e.val)
             ELSE p

paragraph(input) == take_paragraph(input)


(***************************************************************************)
(* query.rs: the query catalogue.  A query is a record of its variant and  *)
(* the rendered text of its argument.                                      *)
(***************************************************************************)
AS1 == <<"A", "S", "1">>

AS65000 == <<"A", "S", "6", "5", "0", "0", "0">>

NoQuery == [kind |-> "none", arg |-> <<>>]

Ipv4Routes(a) == [kind |-> "Ipv4Routes", arg |-> a]

Ipv6Routes(a) == [kind |-> "Ipv6Routes", arg |-> a]

UnsetSources == [kind |-> "UnsetSources", arg |-> <<>>]

SetClientId(id) == [kind |-> "SetClientId", arg |-> id]

SetTimeout(secs) == [kind |-> "SetTimeout", arg |-> secs]

AsSetMembersRecursive(a) == [kind |-> "AsSetMembersRecursive", arg |-> a]

MntBy(m) == [kind |-> "MntBy", arg |-> m]

\* the queries the caller of the model pushes
Queries == {Ipv4Routes(AS1), Ipv6Routes(AS1), UnsetSources}

cmd(query) ==
    CASE query.kind = "Version" -> <<"!", "v", NL>>
      [] query.kind = "SetClientId" -> <<"!", "n">> \o query.arg \o <<NL>>
      [] query.kind = "SetTimeout" -> <<"!", "t">> \o query.arg \o <<NL>>
      [] query.kind = "GetSources" -> <<"!", "s", "-", "l", "c", NL>>
      [] query.kind = "SetSources" -> <<"!", "s">> \o query.arg \o <<NL>>
      [] query.kind = "UnsetSources" -> <<"!", "s", "-", "*", NL>>
      [] query.kind = "AsSetMembers" -> <<"!", "i">> \o query.arg \o <<NL>>
      [] query.kind = "AsSetMembersRecursive" -> <<"!", "i">> \o query.arg \o <<",", "1", NL>>
      [] query.kind = "RouteSetMembers" -> <<"!", "i">> \o query.arg \o <<NL>>
      [] query.kind = "RouteSetMembersRecursive" -> <<"!", "i">> \o query.arg \o <<",", "1", NL>>
      [] query.kind = "Ipv4Routes" -> <<"!", "g">> \o query.arg \o <<NL>>
      [] query.kind = "Ipv6Routes" -> <<"!", "6">> \o query.arg \o <<NL>>
      [] query.kind = "RpslObject" -> <<"!", "m">> \o query.arg \o <<NL>>
      [] query.kind = "MntBy" -> <<"!", "o">> \o query.arg \o <<NL>>
      [] query.kind = "Origins" -> <<"!", "r">> \o query.arg \o <<",", "o", NL>>
      [] query.kind = "RoutesExact" -> <<"!", "r">> \o query.arg \o <<NL>>
      [] query.kind = "RoutesLess" -> <<"!", "r">> \o query.arg \o <<",", "l", NL>>
      [] query.kind = "RoutesLessEqual" -> <<"!", "r">> \o query.arg \o <<",", "L", NL>>
      [] query.kind = "RoutesMore" -> <<"!", "r">> \o query.arg \o <<",", "M", NL>>

expect_data(query) ==
    query.kind \in {"Version", "GetSources", "AsSetMembers", "RouteSetMembers",
                    "AsSetMembersRecursive", "RouteSetMembersRecursive",
                    "Ipv4Routes", "Ipv6Routes", "RpslObject", "MntBy", "Origins",
                    "RoutesExact", "RoutesLess", "RoutesLessEqual", "RoutesMore"}

\* ResponseContent::<T>::try_from: T is opaque; the model's T rejects the
\* items that hold a "?" byte and accepts every other item
TryFromContent(item) == "?" \notin Range(item)

\* Query::parse_item: st is "ok", "incomplete", "error" (nom's recoverable
\* error, Error::ParseErr) or "item" (Error::ParseItem with n bytes framed)
parse_item(query, input) ==
    LET r == IF ~expect_data(query) THEN noop(input)
             ELSE IF query.kind = "Version" THEN all(input)
             ELSE IF query.kind \in {"RpslObject", "MntBy", "RoutesExact", "RoutesLess",
                                     "RoutesLessEqual", "RoutesMore"}
                  THEN paragraph(input)
             ELSE word(input)
    IN  IF r.st # "ok" THEN r
        ELSE IF TryFromContent(r.val) THEN r
        ELSE [st |-> "item", n |-> r.n, val |-> r.val]

(***************************************************************************)
(* pipeline/queue.rs: the send queue, as operators on (q, in_flight).      *)
(***************************************************************************)
QueuePush(qq, query) == Append(qq, query)

\* a faulty variant: the batch threshold is tested the wrong way round
FlushUptoInverted(qq, inf) ==
    IF inf = Len(qq) THEN inf
    ELSE LET capacity == MaxInFlight - inf
         IN  IF capacity < MinBatch
             THEN (IF inf + capacity < Len(qq) THEN inf + capacity ELSE Len(qq))
             ELSE inf

\* a faulty variant: the batch is not cut at the in-flight window
FlushUptoUncapped(qq, inf) ==
    IF inf = Len(qq) THEN inf
    ELSE LET capacity == MaxInFlight - inf
         IN  IF capacity >= MinBatch THEN Len(qq) ELSE inf

\* Queue::flush: the index up to which this flush tries to send
FlushUpto(qq, inf) ==
    IF inf = Len(qq) THEN inf
    ELSE LET capacity == MaxInFlight - inf
         IN  IF capacity >= MinBatch
             THEN (IF inf + capacity < Len(qq) THEN inf + capacity ELSE Len(qq))
             ELSE inf

\* a faulty variant: the flush starts from the head of the queue
FlushRangeFromHead(qq, inf) == SubSeq(qq, 1, FlushUpto(qq, inf))

\* Queue::flush: the queries it hands to the send closure, in order
FlushRange(qq, inf) == SubSeq(qq, inf + 1, FlushUpto(qq, inf))

\* a faulty variant: the newest query is taken instead of the oldest
QueuePopBack(qq, inf) ==
    IF inf > 0
    THEN [some |-> TRUE, item |-> qq[Len(qq)], q |-> Take(qq, Len(qq) - 1),
          in_flight |-> inf - 1]
    ELSE [some |-> FALSE, item |-> NoQuery, q |-> qq, in_flight |-> inf]

\* a faulty variant: the queue is popped without looking at in_flight
QueuePopUnguarded(qq, inf) ==
    [some |-> TRUE,
     item |-> IF qq = <<>> THEN NoQuery ELSE Head(qq),
     q |-> IF qq = <<>> THEN qq ELSE Tail(qq),
     in_flight |-> inf - 1]

\* a pop that leaves in_flight as it was
QueuePopHolding(qq, inf) ==
    IF inf > 0
    THEN [some |-> TRUE, item |-> Head(qq), q |-> Tail(qq), in_flight |-> inf]
    ELSE [some |-> FALSE, item |-> NoQuery, q |-> qq, in_flight |-> inf]

\* Queue::pop
QueuePop(qq, inf) ==
    IF inf > 0
    THEN [some |-> TRUE, item |-> Head(qq), q |-> Tail(qq), in_flight |-> inf - 1]
    ELSE [some |-> FALSE, item |-> NoQuery, q |-> qq, in_flight |-> inf]

(***************************************************************************)
(* The server: the responses it may give to a command, well formed or not. *)
(***************************************************************************)
Shapes == {"C", "D", "E", "F", "A0", "good", "exact", "under", "over", "junk"}

\* the payloads of two route queries: two IPv4 prefixes, one IPv6 prefix
V4Payload ==
    <<"1", "0", ".", "0", ".", "0", ".", "0", "/", "2", "4", SP, "1", "0",
      ".", "0", ".", "1", ".", "0", "/", "2", "4">>

V6Payload ==
    <<"2", "0", "0", "1", ":", "d", "b", "8", ":", ":", "/", "3", "2">>

\* a data response: the preamble A<digits>, the payload, the end marker
DataResponse(digits, payload) == <<"A">> \o digits \o <<NL>> \o payload \o EOR

Bytes(shape) ==
    CASE shape = "C" -> <<"C", NL>>
      [] shape = "D" -> <<"D", NL>>
      [] shape = "E" -> <<"E", NL>>
      [] shape = "F" -> <<"F", SP, "x", NL>>
      [] shape = "A0" -> <<"A", "0", NL>>
      [] shape = "good" -> <<"A", "4", NL, "a", SP, "b", NL, "C", NL>>
      [] shape = "exact" -> <<"A", "3", NL, "a", SP, "b", NL, "C", NL>>
      [] shape = "under" -> <<"A", "9", NL, "a", NL, "C", NL>>
      [] shape = "over" -> <<"A", "1", NL, "a", SP, "b", NL, "C", NL>>
      [] shape = "junk" -> <<"Z", NL>>
      [] shape = "none" -> <<>>
      [] shape = "eof" -> <<>>
      [] shape = "cut" -> <<"A", "4", NL, "a">>
      [] shape = "long_f" -> <<"F", SP, "t", "o", "o", SP, "l", "o", "n", "g", NL>>
      [] shape = "q_first" -> DataResponse(<<"4">>, <<"?", SP, "b">>)
      [] shape = "q_mid" -> DataResponse(<<"6">>, <<"a", SP, "?", SP, "b">>)
      [] shape = "q_last" -> DataResponse(<<"4">>, <<"a", SP, "?">>)
      [] shape = "past" -> DataResponse(<<"2">>, <<"a", SP, "b">>)
      [] shape = "p_one" -> DataResponse(<<"2">>, <<"a">>)
      [] shape = "p_two" -> DataResponse(<<"5">>, <<"a", NL, NL, "b">>)
      [] shape = "nl_mid" -> DataResponse(<<"4">>, <<"a", NL, "b">>)
      [] shape = "abc_10" -> DataResponse(<<"1", "0">>, <<"a", "b", "c">>)
      [] shape = "v4_21" -> DataResponse(<<"2", "1">>, V4Payload)
      [] shape = "v6_15" -> DataResponse(<<"1", "5">>, V6Payload)
      [] shape = "v4_24" -> DataResponse(<<"2", "4">>, V4Payload)
      [] shape = "v6_14" -> DataResponse(<<"1", "4">>, V6Payload)

\* the bytes of the replies i..j, summed by halves
RECURSIVE SumBetween(_, _, _)
SumBetween(shapes, i, j) ==
    IF i > j THEN 0
    ELSE IF i = j THEN Len(Bytes(shapes[i]))
    ELSE SumBetween(shapes, i, (i + j) \div 2) + SumBetween(shapes, (i + j) \div 2 + 1, j)

SumLen(shapes, k) == SumBetween(shapes, 1, k)


(***************************************************************************)
(* The state.                                                              *)
(***************************************************************************)
VARIABLES
    q,            \* Queue.q
    in_flight,    \* Queue.in_flight
    buf,          \* Pipeline.buf: the filled region of the read buffer
    wire,         \* the commands written to the socket, in order
    net,          \* the bytes the server has written and the client has not read
    srv,          \* the shapes of the responses the server has written, in order
    holder,       \* what the caller holds: "none", "resp" (a Response), "rs" (a Responses)
    pc,           \* "idle": the caller runs; otherwise the loop a call is in
    op,           \* the call in progress, or the last one
    query,        \* the query pop_wrapped has taken off the queue
    resp,         \* the live Response
    rs_pipeline,  \* Responses.pipeline is Some
    ret,          \* what the last call returned
    pushed,       \* every query handed to push, in order
    npop,         \* the number of queries taken off the queue
    off,          \* the number of bytes consumed from the read buffer
    al,           \* the buffer head was at the start of a response when the last query was taken off
    cnt,          \* the elements returned to the caller since the last query was taken off
    nerr,         \* the number of transport failures
    cap           \* the capacity of Pipeline.buf

vars == <<q, in_flight, buf, wire, net, srv, holder, pc, op, query, resp,
          rs_pipeline, ret, pushed, npop, off, al, cnt, nerr, cap>>

NoResp == [live |-> FALSE, query |-> NoQuery, expect |-> 0, seen |-> 0,
           finished |-> FALSE, pipeline |-> FALSE]

\* a faulty variant: a declared length of 0 is taken for a length of 1
NewResponseNonEmpty(qy, expect) ==
    [live |-> TRUE, query |-> qy, expect |-> IF expect = 0 THEN 1 ELSE expect, seen |-> 0,
     finished |-> FALSE, pipeline |-> TRUE]

\* Response::new
NewResponse(qy, expect) ==
    [live |-> TRUE, query |-> qy, expect |-> expect, seen |-> 0,
     finished |-> FALSE, pipeline |-> TRUE]

\* a returned value: kind is "Ok", "None", "Response", "Item", "Err" or
\* "Done"; err names the Error variant; a and b are its numbers
Ret(o, kind, err, qy, val, a, b) ==
    [op |-> o, kind |-> kind, err |-> err, query |-> qy, val |-> val, a |-> a, b |-> b]

InitWith(capacity) ==
    /\ q = <<>>
    /\ in_flight = 0
    /\ buf = <<>>
    /\ wire = <<>>
    /\ net = <<>>
    /\ srv = <<>>
    /\ holder = "none"
    /\ pc = "idle"
    /\ op = "new"
    /\ query = NoQuery
    /\ resp = NoResp
    /\ rs_pipeline = FALSE
    /\ ret = Ret("new", "Ok", "", NoQuery, <<>>, 0, 0)
    /\ pushed = <<>>
    /\ npop = 0
    /\ off = 0
    /\ al = TRUE
    /\ cnt = 0
    /\ nerr = 0
    /\ cap = capacity

Init == InitWith(Capacity)

\* a parser or a query taken on its own: the input in the buffer, the query
\* in hand, nothing sent or received
InitOn(input, qy) ==
    /\ q = <<>>
    /\ in_flight = 0
    /\ buf = input
    /\ wire = <<>>
    /\ net = <<>>
    /\ srv = <<>>
    /\ holder = "none"
    /\ pc = "idle"
    /\ op = "new"
    /\ query = qy
    /\ resp = NoResp
    /\ rs_pipeline = FALSE
    /\ ret = Ret("new", "Ok", "", NoQuery, <<>>, 0, 0)
    /\ pushed = <<>>
    /\ npop = 0
    /\ off = 0
    /\ al = TRUE
    /\ cnt = 0
    /\ nerr = 0
    /\ cap = Capacity

\* a faulty variant: the text of the argument is written as it is
CmdsBare(qs) == [i \in 1..Len(qs) |-> qs[i].arg]

Cmds(qs) == [i \in 1..Len(qs) |-> cmd(qs[i])]

(***************************************************************************)
(* Pipeline::push: Queue::push, then Pipeline::flush.  The flush hands the *)
(* queries of FlushRange to Connection::send one by one; j of them are     *)
(* written before a send fails (all of them when none fails).              *)
(***************************************************************************)
\* a push that counts in in_flight the query whose send failed
DoPushCounting(qy, bound) ==
    /\ pc = "idle"
    /\ holder = "none"
    /\ Len(pushed) < bound
    /\ LET q1 == QueuePush(q, qy)
           batch == FlushRange(q1, in_flight)
       IN  \E j \in 0..Len(batch) :
             /\ j = Len(batch) \/ nerr < MaxIoErr
             /\ q' = q1
             /\ wire' = wire \o Cmds(Take(batch, j))
             /\ in_flight' = IF j < Len(batch) THEN in_flight + j + 1 ELSE in_flight + j
             /\ nerr' = IF j < Len(batch) THEN nerr + 1 ELSE nerr
             /\ ret' = IF j < Len(batch)
                       THEN Ret("push", "Err", "Io", NoQuery, <<>>, 0, 0)
                       ELSE Ret("push", "Ok", "", NoQuery, <<>>, 0, 0)
    /\ pushed' = Append(pushed, qy)
    /\ op' = "push"
    /\ UNCHANGED <<buf, net, srv, cap, holder, pc, query, resp, rs_pipeline, npop, off, al, cnt>>

DoPush(qy, bound) ==
    /\ pc = "idle"
    /\ holder = "none"
    /\ Len(pushed) < bound
    /\ LET q1 == QueuePush(q, qy)
           batch == FlushRange(q1, in_flight)
       IN  \E j \in 0..Len(batch) :
             /\ j = Len(batch) \/ nerr < MaxIoErr
             /\ q' = q1
             /\ wire' = wire \o Cmds(Take(batch, j))
             /\ in_flight' = in_flight + j
             /\ nerr' = IF j < Len(batch) THEN nerr + 1 ELSE nerr
             /\ ret' = IF j < Len(batch)
                       THEN Ret("push", "Err", "Io", NoQuery, <<>>, 0, 0)
                       ELSE Ret("push", "Ok", "", NoQuery, <<>>, 0, 0)
    /\ pushed' = Append(pushed, qy)
    /\ op' = "push"
    /\ UNCHANGED <<buf, net, srv, cap, holder, pc, query, resp, rs_pipeline, npop, off, al, cnt>>

Push == \E qy \in Queries : DoPush(qy, MaxPush)

(***************************************************************************)
(* The head of Pipeline::pop_wrapped: flush, then Queue::pop.  It is the   *)
(* start of Pipeline::pop (o = "pop") and a step of Responses::next        *)
(* (o = "rnext").                                                          *)
(***************************************************************************)
StartPop(o) ==
    LET batch == FlushRange(q, in_flight)
    IN  \E j \in 0..Len(batch) :
          /\ j = Len(batch) \/ nerr < MaxIoErr
          /\ wire' = wire \o Cmds(Take(batch, j))
          /\ op' = o
          /\ IF j < Len(batch)
             THEN \* the flush failed: Some(Err(..)), the pipeline handed back
                  /\ q' = q
                  /\ in_flight' = in_flight + j
                  /\ nerr' = nerr + 1
                  /\ pc' = "idle"
                  /\ ret' = Ret(o, "Err", "Io", NoQuery, <<>>, 0, 0)
                  /\ holder' = IF o = "pop" THEN "none" ELSE holder
                  /\ rs_pipeline' = (o # "pop")
                  /\ UNCHANGED <<query, npop, al, cnt>>
             ELSE LET p == QueuePop(q, in_flight + j)
                  IN  /\ q' = p.q
                      /\ in_flight' = p.in_flight
                      /\ nerr' = nerr
                      /\ IF p.some
                         THEN /\ query' = p.item
                              /\ npop' = npop + 1
                              /\ al' = (Len(srv) >= npop /\ off = SumLen(srv, npop))
                              /\ cnt' = 0
                              /\ pc' = "status"
                              /\ ret' = Ret(o, "Running", "", NoQuery, <<>>, 0, 0)
                              /\ holder' = holder
                              /\ rs_pipeline' = FALSE
                         ELSE \* None: Responses::next has taken its pipeline and ends
                              /\ pc' = "idle"
                              /\ ret' = Ret(o, "None", "", NoQuery, <<>>, 0, 0)
                              /\ holder' = holder
                              /\ rs_pipeline' = FALSE
                              /\ UNCHANGED <<query, npop, al, cnt>>
          /\ UNCHANGED <<buf, net, srv, cap, resp, pushed, off>>

Pop ==
    /\ pc = "idle"
    /\ holder = "none"
    /\ StartPop("pop")

\* Pipeline::responses
Responses ==
    /\ pc = "idle"
    /\ holder = "none"
    /\ holder' = "rs"
    /\ rs_pipeline' = TRUE
    /\ resp' = NoResp
    /\ op' = "responses"
    /\ ret' = Ret("responses", "Ok", "", NoQuery, <<>>, 0, 0)
    /\ UNCHANGED <<q, in_flight, buf, wire, net, srv, cap, pc, query, pushed, npop, off, al, cnt, nerr>>


(***************************************************************************)
(* Pipeline::fetch: shift, then one Connection::read into the free space   *)
(* of the buffer.  A read delivers between one byte and all the bytes that *)
(* have arrived and fit; with nothing arrived it blocks.                   *)
(***************************************************************************)
FetchSizes == 1..(IF cap - Len(buf) < Len(net) THEN cap - Len(buf) ELSE Len(net))

(***************************************************************************)
(* What pop_wrapped returns, handed to its caller: Pipeline::pop gives it  *)
(* to the caller of the library, Responses::next installs the Response or  *)
(* returns the error.                                                      *)
(***************************************************************************)
PopReturnsOk(r) ==
    /\ resp' = r
    /\ cnt' = cnt
    /\ IF op = "pop"
       THEN /\ holder' = "resp"
            /\ pc' = "idle"
            /\ ret' = Ret(op, "Response", "", r.query, <<>>, r.expect, 0)
            /\ rs_pipeline' = FALSE
       ELSE /\ holder' = holder
            /\ pc' = "item"
            /\ ret' = ret
            /\ rs_pipeline' = FALSE

\* a faulty variant: Responses::next logs the error and goes on to the next
\* query, as the older src/pipeline.rs does
PopReturnsErrSkipped(e) ==
    /\ resp' = NoResp
    /\ IF op = "pop"
       THEN /\ cnt' = IF e.err = "Io" THEN cnt ELSE cnt + 1
            /\ pc' = "idle"
            /\ ret' = e
            /\ holder' = "none"
            /\ rs_pipeline' = FALSE
       ELSE /\ cnt' = cnt
            /\ pc' = "rs_pop"
            /\ ret' = ret
            /\ holder' = holder
            /\ rs_pipeline' = TRUE

PopReturnsErr(e) ==
    /\ resp' = NoResp
    /\ cnt' = IF e.err = "Io" THEN cnt ELSE cnt + 1
    /\ pc' = "idle"
    /\ ret' = e
    /\ holder' = IF op = "pop" THEN "none" ELSE holder
    /\ rs_pipeline' = (op # "pop")

\* a faulty variant: the declared length is not checked against expect_data
pop_result_unchecked(o, qy, st) ==
    IF ~st.ok
    THEN [ok |-> FALSE, resp |-> NoResp,
          ret |-> Ret(o, "Err", "ResponseErr", qy, <<st.err>> \o st.msg, 0, 0)]
    ELSE [ok |-> TRUE, resp |-> NewResponse(qy, st.len), ret |-> ret]

\* pop_wrapped once the status line st is parsed: the error of a D, E or F
\* reply, else the cross-check of the declared length against expect_data
pop_result(o, qy, st) ==
    IF ~st.ok
    THEN [ok |-> FALSE, resp |-> NoResp,
          ret |-> Ret(o, "Err", "ResponseErr", qy, <<st.err>> \o st.msg, 0, 0)]
    ELSE IF expect_data(qy) \/ st.len = 0
    THEN [ok |-> TRUE, resp |-> NewResponse(qy, st.len), ret |-> ret]
    ELSE [ok |-> FALSE, resp |-> NoResp,
          ret |-> Ret(o, "Err", "UnexpectedData", qy, <<>>, st.len, 0)]

\* the loop of pop_wrapped: one iteration
StatusStep ==
    /\ pc = "status"
    /\ LET r == response_status(buf)
       IN  CASE r.st = "ok" ->
                  /\ buf' = Drop(buf, r.n)
                  /\ off' = off + r.n
                  /\ UNCHANGED <<net, nerr>>
                  /\ LET res == pop_result(op, query, r.val)
                     IN  IF res.ok THEN PopReturnsOk(res.resp) ELSE PopReturnsErr(res.ret)
             [] r.st = "incomplete" ->
                  \/ /\ nerr < MaxIoErr
                     /\ nerr' = nerr + 1
                     /\ PopReturnsErr(Ret(op, "Err", "Io", NoQuery, <<>>, 0, 0))
                     /\ UNCHANGED <<buf, net, off>>
                  \/ \E n \in FetchSizes :
                       /\ buf' = buf \o Take(net, n)
                       /\ net' = Drop(net, n)
                       /\ UNCHANGED <<off, nerr, resp, cnt, pc, ret, holder, rs_pipeline>>
             [] r.st = "error" ->
                  /\ PopReturnsErr(Ret(op, "Err", "Parse", NoQuery, <<>>, 0, 0))
                  /\ UNCHANGED <<buf, net, off, nerr>>
    /\ UNCHANGED <<q, in_flight, wire, srv, cap, op, query, pushed, npop, al>>

(***************************************************************************)
(* Response::next_or_yield up to its first fetch: k is what it returns     *)
(* ("Item", "Yield", "Err", "Finished") or "Fetch" when the loop needs     *)
(* more bytes; r is the Response afterwards, n the bytes consumed, pipe    *)
(* whether the value carries the pipeline.                                 *)
(***************************************************************************)
Outcome(k, v, r, n, pipe) == [k |-> k, v |-> v, r |-> r, n |-> n, pipe |-> pipe]

\* a faulty variant: the pipeline is given up but the Response not finished
NotFused(r) == [r EXCEPT !.pipeline = FALSE]

Fused(r) == [r EXCEPT !.finished = TRUE, !.pipeline = FALSE]

\* a faulty variant: the declared length is compared with the bytes seen
LengthMatchesSeen(expect, seen) == expect = seen

\* the test made when the end-of-response marker is recognised
LengthMatches(expect, seen) == expect = seen + 1

\* a faulty variant: one byte past the declared length is let through
SeenFarPastExpect(expect, seen) == seen > expect + 1

\* the test made before an item is parsed
SeenPastExpect(expect, seen) == seen > expect

\* a faulty variant: the bytes of an item that failed to parse are not counted
SeenUnchanged(seen, consumed) == seen

\* self.seen += consumed, for an item whose content failed to parse
SeenWithFailed(seen, consumed) == seen + consumed

next_or_yield(r, input, o) ==
    IF r.finished
    THEN Outcome("Finished", ret, r, 0, FALSE)
    ELSE IF ~r.pipeline
    THEN Outcome("Err", Ret(o, "Err", "ConsumedResponse", NoQuery, <<>>, 0, 0),
                 Fused(r), 0, FALSE)
    ELSE IF ~expect_data(r.query) \/ r.expect = 0
    THEN Outcome("Yield", ret, Fused(r), 0, TRUE)
    ELSE IF end_of_response(input).st = "ok"
    THEN IF LengthMatches(r.expect, r.seen)
         THEN Outcome("Yield", ret, Fused(r), 3, TRUE)
         ELSE Outcome("Err", Ret(o, "Err", "ResponseDataUnderrun", NoQuery, <<>>,
                                 r.seen, r.expect), Fused(r), 3, TRUE)
    ELSE IF SeenPastExpect(r.expect, r.seen)
    THEN Outcome("Err", Ret(o, "Err", "ResponseDataOverrun", NoQuery, <<>>,
                            r.seen, r.expect), Fused(r), 0, TRUE)
    ELSE LET i == parse_item(r.query, input)
         IN  IF i.st = "ok"
             THEN Outcome("Item", Ret(o, "Item", "", r.query, i.val, 0, 0),
                          [r EXCEPT !.seen = r.seen + i.n], i.n, FALSE)
             ELSE IF i.st = "item"
             THEN Outcome("Item", Ret(o, "Err", "ParseItem", NoQuery, i.val, i.n, 0),
                          [r EXCEPT !.seen = SeenWithFailed(r.seen, i.n)], i.n, FALSE)
             ELSE Outcome("Fetch", ret, r, 0, FALSE)

\* a faulty variant: Responses keeps the Response that returned the error
CurrentKept(r) == r

\* Responses::next on Err from next_or_yield: self.current_reponse = None
CurrentAfterErr(r) == NoResp

(***************************************************************************)
(* What next_or_yield returns, handed to its caller: Response::next (from  *)
(* the library's caller, or from the drain of Response::consume on drop)   *)
(* or Responses::next.                                                     *)
(***************************************************************************)
Deliver(out) ==
    CASE op \in {"next", "from_initial"} ->
           /\ resp' = out.r
           /\ pc' = "idle"
           /\ ret' = IF out.k \in {"Yield", "Finished"}
                     THEN Ret(op, "None", "", NoQuery, <<>>, 0, 0) ELSE out.v
           /\ cnt' = IF out.k \in {"Yield", "Finished"} \/ out.v.err = "Io"
                     THEN cnt ELSE cnt + 1
           /\ UNCHANGED <<holder, rs_pipeline>>
      [] op \in {"drop", "rdrop"} ->
           IF out.k \in {"Yield", "Finished"}
           THEN /\ resp' = NoResp
                /\ pc' = "idle"
                /\ holder' = "none"
                /\ rs_pipeline' = FALSE
                /\ ret' = Ret(op, "Done", "", NoQuery, <<>>, 0, 0)
                /\ cnt' = cnt
           ELSE /\ resp' = out.r
                /\ UNCHANGED <<pc, holder, rs_pipeline, ret, cnt>>
      [] op = "rnext" ->
           CASE out.k = "Item" ->
                  /\ resp' = out.r
                  /\ pc' = "idle"
                  /\ ret' = out.v
                  /\ cnt' = IF out.v.err = "Io" THEN cnt ELSE cnt + 1
                  /\ UNCHANGED <<holder, rs_pipeline>>
             [] out.k = "Yield" ->
                  /\ resp' = NoResp
                  /\ rs_pipeline' = TRUE
                  /\ pc' = "rs_pop"
                  /\ UNCHANGED <<holder, ret, cnt>>
             [] out.k = "Err" ->
                  /\ resp' = CurrentAfterErr(out.r)
                  /\ rs_pipeline' = out.pipe
                  /\ pc' = "idle"
                  /\ ret' = out.v
                  /\ cnt' = cnt + 1
                  /\ UNCHANGED holder
             [] out.k = "Finished" ->
                  \* unreachable!("current_reponse has already finished")
                  /\ pc' = "panic"
                  /\ ret' = Ret(op, "Panic", "", NoQuery, <<>>, 0, 0)
                  /\ UNCHANGED <<resp, rs_pipeline, holder, cnt>>

\* the loop of next_or_yield: one iteration
ItemStep ==
    /\ pc = "item"
    /\ LET out == next_or_yield(resp, buf, op)
       IN  IF out.k # "Fetch"
           THEN /\ buf' = Drop(buf, out.n)
                /\ off' = off + out.n
                /\ UNCHANGED <<net, nerr>>
                /\ Deliver(out)
           ELSE \/ /\ nerr < MaxIoErr
                   /\ nerr' = nerr + 1
                   /\ UNCHANGED <<buf, net, off>>
                   /\ Deliver(Outcome("Item", Ret(op, "Err", "Io", NoQuery, <<>>, 0, 0),
                                      [resp EXCEPT !.pipeline = FALSE], 0, FALSE))
                \/ \E n \in FetchSizes :
                     /\ buf' = buf \o Take(net, n)
                     /\ net' = Drop(net, n)
                     /\ UNCHANGED <<off, nerr, resp, cnt, pc, ret, holder, rs_pipeline>>
    /\ UNCHANGED <<q, in_flight, wire, srv, cap, op, query, pushed, npop, al>>

\* Responses::next, after a Response has yielded the pipeline back
RsPop ==
    /\ pc = "rs_pop"
    /\ StartPop("rnext")

\* Response::next, called on the Response that pop returned
\* a faulty variant: the read of an item starts with a flush of the queue
NextFlushing ==
    /\ pc = "idle"
    /\ holder = "resp"
    /\ pc' = "item"
    /\ op' = "next"
    /\ ret' = Ret("next", "Running", "", NoQuery, <<>>, 0, 0)
    /\ wire' = wire \o Cmds(FlushRange(q, in_flight))
    /\ in_flight' = FlushUpto(q, in_flight)
    /\ UNCHANGED <<q, buf, net, srv, cap, holder, query, resp, rs_pipeline,
                   pushed, npop, off, al, cnt, nerr>>

Next ==
    /\ pc = "idle"
    /\ holder = "resp"
    /\ pc' = "item"
    /\ op' = "next"
    /\ ret' = Ret("next", "Running", "", NoQuery, <<>>, 0, 0)
    /\ UNCHANGED <<q, in_flight, buf, wire, net, srv, cap, holder, query, resp, rs_pipeline,
                   pushed, npop, off, al, cnt, nerr>>

\* Drop for Response: Response::consume drains it
DropResponse ==
    /\ pc = "idle"
    /\ holder = "resp"
    /\ pc' = "item"
    /\ op' = "drop"
    /\ ret' = Ret("drop", "Running", "", NoQuery, <<>>, 0, 0)
    /\ UNCHANGED <<q, in_flight, buf, wire, net, srv, cap, holder, query, resp, rs_pipeline,
                   pushed, npop, off, al, cnt, nerr>>

\* Responses::next, whoever holds the Responses
RNextCall ==
    /\ pc = "idle"
    /\ IF resp.live
       THEN /\ pc' = "item"
            /\ op' = "rnext"
            /\ ret' = Ret("rnext", "Running", "", NoQuery, <<>>, 0, 0)
            /\ UNCHANGED <<q, in_flight, buf, wire, net, srv, cap, holder, query, resp,
                           rs_pipeline, pushed, npop, off, al, cnt, nerr>>
       ELSE IF rs_pipeline
       THEN StartPop("rnext")
       ELSE /\ op' = "rnext"
            /\ ret' = Ret("rnext", "None", "", NoQuery, <<>>, 0, 0)
            /\ UNCHANGED <<q, in_flight, buf, wire, net, srv, cap, holder, pc, query, resp,
                           rs_pipeline, pushed, npop, off, al, cnt, nerr>>

\* Responses::next, called by the caller of responses()
RNext ==
    /\ holder = "rs"
    /\ RNextCall

\* dropping a Responses drops its current Response, which drains itself
DropResponses ==
    /\ pc = "idle"
    /\ holder = "rs"
    /\ op' = "rdrop"
    /\ IF resp.live
       THEN /\ pc' = "item"
            /\ ret' = Ret("rdrop", "Running", "", NoQuery, <<>>, 0, 0)
            /\ UNCHANGED <<holder, rs_pipeline>>
       ELSE /\ pc' = "idle"
            /\ ret' = Ret("rdrop", "Done", "", NoQuery, <<>>, 0, 0)
            /\ holder' = "none"
            /\ rs_pipeline' = FALSE
    /\ UNCHANGED <<q, in_flight, buf, wire, net, srv, cap, query, resp,
                   pushed, npop, off, al, cnt, nerr>>

\* the server answers the next command it has received with a response of
\* one of the shapes S, while fewer than room bytes wait unread
Respond(S, room) ==
    /\ Len(srv) < Len(wire)
    /\ \E shape \in S :
         /\ Len(net) + Len(Bytes(shape)) <= room
         /\ net' = net \o Bytes(shape)
         /\ srv' = Append(srv, shape)
    /\ UNCHANGED <<q, in_flight, buf, wire, cap, holder, pc, op, query, resp, rs_pipeline,
                   ret, pushed, npop, off, al, cnt, nerr>>

ServerRespond == Respond(Shapes, NetCap)

Step ==
    \/ Push
    \/ Pop
    \/ Responses
    \/ Next
    \/ DropResponse
    \/ RNext
    \/ DropResponses
    \/ RsPop
    \/ StatusStep
    \/ ItemStep
    \/ ServerRespond

Spec == Init /\ [][Step]_vars

(***************************************************************************)
(* A caller that only pushes, far enough to fill the in-flight window.     *)
(***************************************************************************)
BulkPush == DoPush(Ipv4Routes(AS1), BulkMaxPush)

SpecBulk == Init /\ [][BulkPush]_vars

(***************************************************************************)
(* A caller that pushes the routes queries of one AS, Ipv4Routes and       *)
(* Ipv6Routes in turn, past the in-flight window, and pops now and then.   *)
(* The server answers each query it has received with "D" (key not found). *)
(***************************************************************************)
WindowQuery == IF Len(pushed) % 2 = 0 THEN Ipv4Routes(AS1) ELSE Ipv6Routes(AS1)

WindowPush == DoPush(WindowQuery, WindowMaxPush)

WindowPop == npop < WindowMaxPop /\ Pop

WindowRespond == Respond({"D"}, WindowRoom)

WindowStep ==
    \/ WindowPush
    \/ WindowPop
    \/ StatusStep
    \/ WindowRespond

SpecWindow == Init /\ [][WindowStep]_vars

(***************************************************************************)
(* A caller that first pushes its routes queries, one more than the        *)
(* window lets through, and then pops and iterates the responses.  The     *)
(* server answers each query it has received with a two-item response.     *)
(***************************************************************************)
DrainPush == DoPush(WindowQuery, DrainMaxPush)

DrainPop ==
    /\ Len(pushed) = DrainMaxPush
    /\ npop < DrainMaxPop
    /\ Pop

DrainRespond == Respond({"good"}, DrainRoom)

DrainStep ==
    \/ DrainPush
    \/ DrainPop
    \/ Next
    \/ DropResponse
    \/ StatusStep
    \/ ItemStep
    \/ DrainRespond

SpecDrain == Init /\ [][DrainStep]_vars

(***************************************************************************)
(* The pipelined two-query scenario: Ipv4Routes(AS65000) and               *)
(* Ipv6Routes(AS65000) are pushed, then responses() is iterated.  The      *)
(* server answers with the two data responses of one of the scripts: the   *)
(* declared lengths 21 and 15, or 24 and 14.                               *)
(***************************************************************************)
ExQueries == <<Ipv4Routes(AS65000), Ipv6Routes(AS65000)>>

ExScripts == {<<"v4_21", "v6_15">>, <<"v4_24", "v6_14">>}

ExPush ==
    /\ Len(pushed) < Len(ExQueries)
    /\ DoPush(ExQueries[Len(pushed) + 1], Len(ExQueries))

ExResponses ==
    /\ Len(pushed) = Len(ExQueries)
    /\ Responses

ExRespond ==
    \E script \in ExScripts :
        /\ Len(srv) < Len(script)
        /\ srv = Take(script, Len(srv))
        /\ Respond({script[Len(srv) + 1]}, ExRoom)

ExStep ==
    \/ ExPush
    \/ ExResponses
    \/ RNext
    \/ RsPop
    \/ StatusStep
    \/ ItemStep
    \/ ExRespond

SpecExample == InitWith(ExCapacity) /\ [][ExStep]_vars

(***************************************************************************)
(* Reads that deliver no byte.  Connection::read returns Ok(0) when the    *)
(* server has closed the connection and every byte it wrote has been read, *)
(* and when Buffer::space() is empty; Pipeline::fetch then returns Ok(0)   *)
(* and the loop that called it goes round again.  The server's close is    *)
(* the entry "eof" at the end of srv; while a call runs, ret.a counts the   *)
(* reads that gave it no byte.                                             *)
(***************************************************************************)
Closed == srv # <<>> /\ srv[Len(srv)] = "eof"

ReadGivesNothing == cap = Len(buf) \/ (Closed /\ net = <<>>)

\* pop_wrapped or next_or_yield is at the call of fetch
AtFetch ==
    \/ pc = "status" /\ response_status(buf).st = "incomplete"
    \/ pc = "item" /\ next_or_yield(resp, buf, op).k = "Fetch"

\* fetch returns Ok(0): nothing is consumed, nothing is added, the loop
\* continues
EmptyRead ==
    /\ AtFetch
    /\ ReadGivesNothing
    /\ ret.a < MaxEmptyReads
    /\ ret' = [ret EXCEPT !.a = @ + 1]
    /\ UNCHANGED <<q, in_flight, buf, wire, net, srv, cap, holder, pc, op, query, resp,
                   rs_pipeline, pushed, npop, off, al, cnt, nerr>>

\* the server closes the connection
Close ==
    /\ ~Closed
    /\ srv' = Append(srv, "eof")
    /\ UNCHANGED <<q, in_flight, buf, wire, net, cap, holder, pc, op, query, resp,
                   rs_pipeline, ret, pushed, npop, off, al, cnt, nerr>>

EofShapes == {"C", "good", "cut", "long_f"}

EofRespond == ~Closed /\ Respond(EofShapes, ExRoom)

EofPush == \E qy \in {Ipv4Routes(AS1), UnsetSources} : DoPush(qy, EofMaxPush)

EofStep ==
    \/ EofPush
    \/ Pop
    \/ Next
    \/ DropResponse
    \/ StatusStep
    \/ ItemStep
    \/ EmptyRead
    \/ EofRespond
    \/ Close

SpecEof == InitWith(ConnectCapacity) /\ [][EofStep]_vars

(***************************************************************************)
(* Items whose content does not parse as T: one data query, answered with  *)
(* a well-formed response that holds such an item first, in the middle or  *)
(* last, read item by item.                                                *)
(***************************************************************************)
ItemShapes == {"q_first", "q_mid", "q_last", "good"}

ItemPush == DoPush(Ipv4Routes(AS1), 1)

ItemRespond == Respond(ItemShapes, ExRoom)

ItemsStep ==
    \/ ItemPush
    \/ Pop
    \/ Next
    \/ DropResponse
    \/ StatusStep
    \/ ItemStep
    \/ ItemRespond

SpecItems == Init /\ [][ItemsStep]_vars

(***************************************************************************)
(* One query answered by a data response of two words whose declared       *)
(* length is right ("good"), too large ("under") or too small by one       *)
(* ("exact"), by two ("past") or by three ("over").                        *)
(***************************************************************************)
MismatchShapes == {"good", "exact", "under", "over", "past"}

MismatchPush == DoPush(Ipv4Routes(AS1), 1)

MismatchRespond == Respond(MismatchShapes, NetCap)

MismatchStep ==
    \/ MismatchPush
    \/ Pop
    \/ Next
    \/ DropResponse
    \/ StatusStep
    \/ ItemStep
    \/ MismatchRespond

SpecMismatch == Init /\ [][MismatchStep]_vars

(***************************************************************************)
(* Two pipelined MntBy queries, whose items are paragraphs.  The server    *)
(* answers each with one object ("p_one") or with two objects separated by *)
(* a blank line ("p_two"); the declared length is the one next_or_yield    *)
(* accepts.                                                                *)
(***************************************************************************)
ParaShapes == {"p_one", "p_two"}

ParaPush == DoPush(MntBy(<<"M", "-", "X">>), MaxPush)

ParaRespond == Respond(ParaShapes, ParaRoom)

ParaStep ==
    \/ ParaPush
    \/ Pop
    \/ Next
    \/ DropResponse
    \/ StatusStep
    \/ ItemStep
    \/ ParaRespond

SpecParagraph == Init /\ [][ParaStep]_vars

(***************************************************************************)
(* Pipeline::clear and Drop for Pipeline: responses::<String>().consume()  *)
(* calls Responses::next until it gives None.  holder is "clear" while     *)
(* clear() runs for the caller and "pdrop" while it runs for the drop of   *)
(* the Pipeline, after which a new Pipeline with a new, empty read buffer  *)
(* is made on the same Connection.                                         *)
(***************************************************************************)
StartClear(h) ==
    /\ pc = "idle"
    /\ holder = "none"
    /\ holder' = h
    /\ rs_pipeline' = TRUE
    /\ resp' = NoResp
    /\ op' = "clear"
    /\ ret' = Ret("clear", "Running", "", NoQuery, <<>>, 0, 0)
    /\ UNCHANGED <<q, in_flight, buf, wire, net, srv, cap, pc, query, pushed, npop, off,
                   al, cnt, nerr>>

Clear == StartClear("clear")

DropPipeline == StartClear("pdrop")

\* Responses::consume: the next element, or the end of the loop
ClearStep ==
    /\ pc = "idle"
    /\ holder \in {"clear", "pdrop", "connect", "connect_err"}
    /\ IF ret.op = "rnext" /\ ret.kind = "None"
       THEN /\ holder' = "none"
            /\ rs_pipeline' = FALSE
            /\ resp' = NoResp
            /\ op' = "clear"
            /\ ret' = CASE holder = "connect" -> Ret("connect", "Ok", "", NoQuery, <<>>, 0, 0)
                         [] holder = "connect_err" ->
                              Ret("connect", "Err", "Io", NoQuery, <<>>, 0, 0)
                         [] OTHER -> Ret(holder, "Done", "", NoQuery, <<>>, 0, 0)
            /\ IF holder = "clear"
               THEN UNCHANGED <<q, in_flight, buf, off>>
               ELSE /\ q' = <<>>
                    /\ in_flight' = 0
                    /\ buf' = <<>>
                    /\ off' = off + Len(buf)
            /\ cap' = IF holder \in {"connect", "connect_err"} THEN Capacity ELSE cap
            /\ UNCHANGED <<wire, net, srv, pc, query, pushed, npop, al, cnt, nerr>>
       ELSE RNextCall

ReuseStep ==
    \/ Push
    \/ Pop
    \/ Next
    \/ DropResponse
    \/ Clear
    \/ DropPipeline
    \/ ClearStep
    \/ RsPop
    \/ StatusStep
    \/ ItemStep
    \/ ServerRespond

SpecReuse == Init /\ [][ReuseStep]_vars

(***************************************************************************)
(* Pipeline::from_initial, with the closure of examples/pipelined.rs: an   *)
(* Ok item x gives the queries Ipv4Routes(x), Ipv6Routes(x), an Err gives  *)
(* None.  holder is "init" while from_initial runs.                        *)
(***************************************************************************)
AS_SET == <<"A", "S", "-", "X">>

InitialQuery == AsSetMembersRecursive(AS_SET)

into_routes_queries(x) == <<Ipv4Routes(x), Ipv6Routes(x)>>

\* a faulty variant: the closure's queries are pushed last first
Reversed(qs) == [i \in 1..Len(qs) |-> qs[Len(qs) + 1 - i]]

\* the order in which try_for_each is handed the closure's queries
Flattened(qs) == qs

\* push after push, every send succeeding: the queue, in_flight and the
\* bytes written
RECURSIVE PushedAll(_, _)
PushedAll(st, qs) ==
    IF qs = <<>> THEN st
    ELSE LET q1 == QueuePush(st.q, Head(qs))
         IN  PushedAll([q |-> q1,
                        in_flight |-> FlushUpto(q1, st.in_flight),
                        wire |-> st.wire \o Cmds(FlushRange(q1, st.in_flight))],
                       Tail(qs))

\* from_initial returns Err: its Response, then its Pipeline, are dropped.
\* Both drains are played by Responses::consume on the Response and the rest
\* of the queue.
InitialFails(e) ==
    /\ holder' = "pdrop"
    /\ rs_pipeline' = ~resp.live
    /\ op' = "from_initial"
    /\ ret' = Ret("from_initial", "Err", e, NoQuery, <<>>, 0, 0)
    /\ pc' = "idle"
    /\ UNCHANGED <<buf, net, srv, cap, query, resp, npop, off, al, cnt>>

\* pushes of the queries qs one after the other, the bytes written so far
\* being w0: either all succeed (ok), or m succeed and the flush of the next
\* one fails after j sends
PushEach(w0, qs) ==
    LET after(m) == PushedAll([q |-> q, in_flight |-> in_flight, wire |-> w0], Take(qs, m))
    IN  {[ok |-> TRUE, q |-> after(Len(qs)).q, in_flight |-> after(Len(qs)).in_flight,
          wire |-> after(Len(qs)).wire, n |-> Len(qs)]}
        \cup
        {[ok |-> FALSE, q |-> QueuePush(after(mj[1]).q, qs[mj[1] + 1]),
          in_flight |-> after(mj[1]).in_flight + mj[2],
          wire |-> after(mj[1]).wire
                   \o Cmds(Take(FlushRange(QueuePush(after(mj[1]).q, qs[mj[1] + 1]),
                                           after(mj[1]).in_flight), mj[2])),
          n |-> mj[1] + 1] :
           mj \in {x \in (0..(Len(qs) - 1)) \X (0..MaxInFlight) :
                      /\ nerr < MaxIoErr
                      /\ x[2] < Len(FlushRange(QueuePush(after(x[1]).q, qs[x[1] + 1]),
                                               after(x[1]).in_flight))}}

\* a faulty variant: the queries made from an item are not pushed when the
\* item has been read
PushesDeferred(o, qs) ==
    /\ UNCHANGED <<q, in_flight, wire, pushed>>
    /\ nerr' = IF o.ok THEN nerr ELSE nerr + 1

\* the state after the pushes of outcome o
Pushes(o, qs) ==
    /\ q' = o.q
    /\ in_flight' = o.in_flight
    /\ wire' = o.wire
    /\ pushed' = pushed \o Take(qs, o.n)
    /\ nerr' = IF o.ok THEN nerr ELSE nerr + 1

\* from_initial up to the first read of its pop: push(initial), then the
\* head of pop_wrapped
FromInitial ==
    /\ pc = "idle"
    /\ holder = "none"
    /\ pushed = <<>>
    /\ \E m \in 0..1 :
         LET q1 == QueuePush(q, InitialQuery)
             batch == FlushRange(q1, in_flight)
             p == QueuePop(q1, FlushUpto(q1, in_flight))
         IN  /\ pushed' = Append(pushed, InitialQuery)
             /\ IF m = 1
                THEN /\ wire' = wire \o Cmds(batch)
                     /\ nerr' = nerr
                     /\ q' = p.q
                     /\ in_flight' = p.in_flight
                     /\ IF p.some
                        THEN /\ query' = p.item
                             /\ npop' = npop + 1
                             /\ al' = (Len(srv) >= npop /\ off = SumLen(srv, npop))
                             /\ cnt' = 0
                             /\ pc' = "status"
                             /\ op' = "from_initial"
                             /\ ret' = Ret("from_initial", "Running", "", NoQuery, <<>>, 0, 0)
                             /\ holder' = "init"
                             /\ rs_pipeline' = FALSE
                             /\ UNCHANGED <<buf, net, srv, cap, resp, off>>
                        ELSE InitialFails("Dequeue")
                ELSE /\ nerr < MaxIoErr
                     /\ \E j \in 0..(Len(batch) - 1) :
                          /\ q' = q1
                          /\ in_flight' = in_flight + j
                          /\ wire' = wire \o Cmds(Take(batch, j))
                     /\ nerr' = nerr + 1
                     /\ InitialFails("Io")

\* Response::next is called for the next element
InitialNext ==
    /\ pc' = "item"
    /\ op' = "from_initial"
    /\ ret' = Ret("from_initial", "Running", "", NoQuery, <<>>, 0, 0)
    /\ UNCHANGED <<buf, net, srv, cap, holder, query, resp, rs_pipeline, npop, off, al, cnt>>

\* from_initial between two reads: what it does with what pop or
\* Response::next gave it
InitialStep ==
    /\ pc = "idle"
    /\ holder = "init"
    /\ CASE ret.kind = "Item" ->
              LET qs == Flattened(into_routes_queries(ret.val))
              IN  \E o \in PushEach(wire, qs) :
                    /\ Pushes(o, qs)
                    /\ IF o.ok THEN InitialNext ELSE InitialFails("Io")
         [] ret.kind = "Err" /\ resp.live ->
              /\ InitialNext
              /\ UNCHANGED <<q, in_flight, wire, pushed, nerr>>
         [] ret.kind = "Err" /\ ~resp.live ->
              /\ InitialFails(ret.err)
              /\ UNCHANGED <<q, in_flight, wire, pushed, nerr>>
         [] ret.kind = "None" ->
              /\ holder' = "none"
              /\ resp' = NoResp
              /\ rs_pipeline' = FALSE
              /\ op' = "from_initial"
              /\ ret' = Ret("from_initial", "Ok", "", NoQuery, <<>>, 0, 0)
              /\ UNCHANGED <<q, in_flight, buf, wire, net, srv, cap, pc, query, pushed,
                             npop, off, al, cnt, nerr>>

\* the replies of the model's server: to the initial query, then to the
\* queries made from its items
InitialShapes == {"C", "D", "good", "exact", "under", "over"}

RouteShapes == {"C", "D", "exact"}

InitialRespond ==
    Respond(IF srv = <<>> THEN InitialShapes ELSE RouteShapes, NetCap)

\* the caller drains the Pipeline that from_initial returned
InitialDrain ==
    /\ pushed # <<>>
    /\ ret.op # "pdrop"
    /\ (Pop \/ Next \/ DropResponse)

InitialStepNext ==
    \/ FromInitial
    \/ InitialStep
    \/ InitialDrain
    \/ ClearStep
    \/ RsPop
    \/ StatusStep
    \/ ItemStep
    \/ InitialRespond

SpecInitial == Init /\ [][InitialStepNext]_vars

(***************************************************************************)
(* Connection::connect: the handshake, then SetClientId and, when a server *)
(* timeout is configured, SetTimeout, pushed on a Pipeline of capacity 8   *)
(* that is dropped at the end of its block, or when a push fails.  holder  *)
(* is "connect" (or "connect_err") while that drop drains the Pipeline.    *)
(***************************************************************************)
Handshake == <<"!", "!", NL>>

\* IrrClient::effective_client_id and the seconds of server_timeout, as text
ClientIds == {<<"i">>}

NoTimeout == <<>>

ServerTimeouts == {NoTimeout, <<"5">>}

\* the queries connect pushes, in order
ConnectQueries(id, t) ==
    IF t = NoTimeout THEN <<SetClientId(id)>> ELSE <<SetClientId(id), SetTimeout(t)>>

\* the init pipeline goes out of scope
ConnectDrops(h) ==
    /\ holder' = h
    /\ rs_pipeline' = TRUE
    /\ resp' = NoResp
    /\ op' = "connect"
    /\ ret' = Ret("connect", "Running", "", NoQuery, <<>>, 0, 0)
    /\ cap' = ConnectCapacity
    /\ UNCHANGED <<buf, net, srv, pc, query, npop, off, al, cnt>>

ConnectPushed == ConnectDrops("connect")

ConnectFails == ConnectDrops("connect_err")

Connect ==
    /\ pc = "idle"
    /\ holder = "none"
    /\ wire = <<>>
    /\ pushed = <<>>
    /\ \/ \* write_all(b"!!\n") or flush fails
          /\ nerr < MaxIoErr
          /\ nerr' = nerr + 1
          /\ op' = "connect"
          /\ ret' = Ret("connect", "Err", "Io", NoQuery, <<>>, 0, 0)
          /\ UNCHANGED <<q, in_flight, buf, wire, net, srv, cap, holder, pc, query, resp,
                         rs_pipeline, pushed, npop, off, al, cnt>>
       \/ \E id \in ClientIds, t \in ServerTimeouts :
            \E o \in PushEach(<<Handshake>>, ConnectQueries(id, t)) :
              /\ Pushes(o, ConnectQueries(id, t))
              /\ IF o.ok THEN ConnectPushed ELSE ConnectFails

\* connect has returned Ok
Connected == wire # <<>> /\ holder = "none" /\ ~(ret.op = "connect" /\ ret.kind = "Err")

\* the first Pipeline of the caller
ConnectedPush == Connected /\ \E qy \in Queries : DoPush(qy, ConnectMaxPush)

ConnectedPop == Connected /\ (Pop \/ Next \/ DropResponse)

\* the server has no reply to the handshake; its replies to the queries
ConnectShapes == {"C", "D", "F", "exact"}

ConnectRespond == Respond(IF srv = <<>> THEN {"none"} ELSE ConnectShapes, NetCap)

ConnectStep ==
    \/ Connect
    \/ ClearStep
    \/ ConnectedPush
    \/ ConnectedPop
    \/ RsPop
    \/ StatusStep
    \/ ItemStep
    \/ ConnectRespond

SpecConnect == Init /\ [][ConnectStep]_vars

(***************************************************************************)
(* parse::response_status as a function of its input: the buffer holds a   *)
(* status line followed by any bytes, and the parser is applied to it.     *)
(***************************************************************************)
StatusLines ==
    {<<"A", "0", NL>>, <<"A", "1", "0", "1", NL>>, <<"C", NL>>, <<"D", NL>>, <<"E", NL>>,
     <<"F", SP, "f", "o", "o", NL>>}

TailBytes == {"A", "1", "C", "x", SP, NL}

Tails == UNION {[1..n -> TailBytes] : n \in 0..MaxTail}

StatusInit == \E line \in StatusLines, tail \in Tails : InitOn(line \o tail, NoQuery)

\* response_status(input): what it returns is kept in ret, a the consumed
\* length and val the result
StatusParse ==
    /\ pc = "idle"
    /\ op = "new"
    /\ LET r == response_status(buf)
       IN  ret' = IF r.st = "ok"
                  THEN Ret("response_status", "ok", "", NoQuery, r.val, r.n, 0)
                  ELSE Ret("response_status", r.st, "", NoQuery, <<>>, 0, 0)
    /\ op' = "response_status"
    /\ UNCHANGED <<q, in_flight, buf, wire, net, srv, cap, holder, pc, query, resp,
                   rs_pipeline, pushed, npop, off, al, cnt, nerr>>

SpecStatus == StatusInit /\ [][StatusParse]_vars

(***************************************************************************)
(* The status parser and the end-of-response parser on input that stops    *)
(* short: every proper prefix of a preamble A<digits>\n, C\n, D\n, E\n,     *)
(* F <msg>\n and of the marker \nC\n.                                       *)
(***************************************************************************)
DigitStrings == UNION {[1..n -> {"0", "1", "9"}] : n \in 1..MaxDigits}

Messages == UNION {[1..n -> {"f", SP}] : n \in 0..MaxMsg}

Preambles ==
    {<<"A">> \o d \o <<NL>> : d \in DigitStrings}
    \cup {<<"C", NL>>, <<"D", NL>>, <<"E", NL>>}
    \cup {<<"F", SP>> \o m \o <<NL>> : m \in Messages}

ProperPrefixes(S) == UNION {{Take(line, n) : n \in 0..(Len(line) - 1)} : line \in S}

PrefixInit == \E input \in ProperPrefixes(Preambles \cup {EOR}) : InitOn(input, NoQuery)

\* end_of_response(input): what it returns is kept in ret, a the consumed
\* length
EorParse ==
    /\ pc = "idle"
    /\ op = "new"
    /\ LET r == end_of_response(buf)
       IN  ret' = IF r.st = "ok"
                  THEN Ret("end_of_response", "ok", "", NoQuery, <<>>, r.n, 0)
                  ELSE Ret("end_of_response", r.st, "", NoQuery, <<>>, 0, 0)
    /\ op' = "end_of_response"
    /\ UNCHANGED <<q, in_flight, buf, wire, net, srv, cap, holder, pc, query, resp,
                   rs_pipeline, pushed, npop, off, al, cnt, nerr>>

PrefixStep == StatusParse \/ EorParse

SpecPrefix == PrefixInit /\ [][PrefixStep]_vars

(***************************************************************************)
(* parse::word as a function of its input: every input of up to            *)
(* MaxWordLen bytes out of a word byte, SPACE, TAB and newline.            *)
(***************************************************************************)
WordBytes == {"a", SP, "\t", NL}

WordInputs == UNION {[1..n -> WordBytes] : n \in 0..MaxWordLen}

WordInit == \E input \in WordInputs : InitOn(input, NoQuery)

\* word(input): what it returns is kept in ret, a the consumed length and
\* val the word
WordParse ==
    /\ pc = "idle"
    /\ op = "new"
    /\ LET r == word(buf)
       IN  ret' = IF r.st = "ok"
                  THEN Ret("word", "ok", "", NoQuery, r.val, r.n, 0)
                  ELSE Ret("word", r.st, "", NoQuery, <<>>, 0, 0)
    /\ op' = "word"
    /\ UNCHANGED <<q, in_flight, buf, wire, net, srv, cap, holder, pc, query, resp,
                   rs_pipeline, pushed, npop, off, al, cnt, nerr>>

SpecWord == WordInit /\ [][WordParse]_vars

(***************************************************************************)
(* Query::cmd as a function of the query: every variant, with arguments of *)
(* the type the variant holds, rendered as text.                           *)
(***************************************************************************)
Strings == {<<>>, <<"x">>, <<NL>>, <<"!">>, <<"x", SP, "y">>, <<"a", NL, "b">>}

Durations == {<<"0">>, <<"5">>, <<"3", "0">>}

SourceLists == {<<>>, <<"R">>, <<"R", ",", "S">>}

AsSets == {AS_SET, <<"A", "S", "1", ":", "A", "S", "-", "X">>}

RouteSets == {<<"R", "S", "-", "X">>}

AutNums == {AS1, AS65000}

Mntners == {<<"M", "-", "X">>}

RpslObjects == {<<"m", ",">> \o str : str \in Strings}

AnyQuery ==
    [kind : {"Version", "GetSources", "UnsetSources"}, arg : {<<>>}]
    \cup [kind : {"SetClientId", "Origins", "RoutesExact", "RoutesLess", "RoutesLessEqual",
                  "RoutesMore"}, arg : Strings]
    \cup [kind : {"SetTimeout"}, arg : Durations]
    \cup [kind : {"SetSources"}, arg : SourceLists]
    \cup [kind : {"AsSetMembers", "AsSetMembersRecursive"}, arg : AsSets]
    \cup [kind : {"RouteSetMembers", "RouteSetMembersRecursive"}, arg : RouteSets]
    \cup [kind : {"Ipv4Routes", "Ipv6Routes"}, arg : AutNums]
    \cup [kind : {"RpslObject"}, arg : RpslObjects]
    \cup [kind : {"MntBy"}, arg : Mntners]

CmdInit == \E qy \in AnyQuery : InitOn(<<>>, qy)

\* conn.send(&query.cmd()): the command of the query in hand is written
SendCmd ==
    /\ pc = "idle"
    /\ op = "new"
    /\ wire' = wire \o Cmds(<<query>>)
    /\ op' = "cmd"
    /\ UNCHANGED <<q, in_flight, buf, net, srv, cap, holder, pc, query, resp, rs_pipeline,
                   ret, pushed, npop, off, al, cnt, nerr>>

SpecCmd == CmdInit /\ [][SendCmd]_vars

(***************************************************************************)
(* One route query whose data response declares a length that its payload  *)
(* does not reach; the caller pops the Response and iterates or drops it.  *)
(***************************************************************************)
ShortShapes == {"abc_10", "under", "exact"}

ShortPush == DoPush(Ipv4Routes(AS1), 1)

ShortRespond == Respond(ShortShapes, ExRoom)

ShortStep ==
    \/ ShortPush
    \/ Pop
    \/ Next
    \/ DropResponse
    \/ StatusStep
    \/ ItemStep
    \/ ShortRespond

SpecShort == Init /\ [][ShortStep]_vars

(***************************************************************************)
(* Properties.  The names below describe the server's responses, for the   *)
(* properties that speak of them.                                          *)
(***************************************************************************)
ErrShapes == {"D", "E", "F"}

DataShapes == {"good", "exact", "under", "over"}

\* the length the preamble of a data response declares
DeclaredLen(shape) == ParseUsize(SubSeq(Bytes(shape), 2, 2))

\* the bytes between the preamble and the end-of-response marker
PayloadLen(shape) == Len(Bytes(shape)) - 3 - Len(EOR)

\* the words of the payload
Words(shape) ==
    CASE shape \in {"good", "exact", "over"} -> <<<<"a">>, <<"b">>>>
      [] shape = "under" -> <<<<"a">>>>
      [] OTHER -> <<>>

\* the error a D, E or F reply stands for
ErrVal(shape) ==
    CASE shape = "D" -> <<"KeyNotFound">>
      [] shape = "E" -> <<"KeyNotUnique">>
      [] shape = "F" -> <<"Other", "x">>

\* the query last taken off the queue met the buffer at the start of its own
\* response, and the server has written that response
Aligned == al /\ npop >= 1 /\ Len(srv) >= npop

\* Pipeline::pop has returned the outcome of the query last taken off
PopDone == pc = "idle" /\ ret.op = "pop" /\ ret.kind \in {"Response", "Err"} /\ ret.err # "Io"

\* C1: the query attached to what the k-th pop gives (the Response, its
\* items, its server error) is the k-th query pushed, and the items come
\* from the k-th response
C1_QueryInPushOrder ==
    /\ ret.query # NoQuery => (npop \in 1..Len(pushed) /\ ret.query = pushed[npop])
    /\ resp.live => (npop \in 1..Len(pushed) /\ resp.query = pushed[npop])
    /\ (ret.kind = "Item" /\ Aligned) => ret.val \in Range(Words(srv[npop]))

C1_Witness ==
    /\ npop = 2 /\ Len(pushed) = 2 /\ pushed[1] # pushed[2]
    /\ nerr = 0 /\ Aligned
    /\ ret.kind = "Item" /\ ret.query = pushed[2] /\ ret.val = <<"b">>

\* C2: the commands written to the socket are a prefix of the commands of
\* the pushed queries, in push order
C2_WireIsPrefixOfPushed ==
    /\ Len(wire) <= Len(pushed)
    /\ wire = Cmds(Take(pushed, Len(wire)))

C2_Witness ==
    /\ Len(wire) = 2 /\ nerr = 1
    /\ pushed[1] # pushed[2]

\* C3: a query is taken off the queue only after its command was written;
\* the written and not yet popped queries are the first in_flight elements
\* of the queue
C3_InFlightIsQueueHead ==
    /\ in_flight \in 0..Len(q)
    /\ npop + in_flight = Len(wire)
    /\ q = Drop(pushed, npop)
    /\ Cmds(Take(q, in_flight)) = Drop(wire, npop)

C3_Witness ==
    /\ npop = 1 /\ in_flight = 1 /\ Len(q) = 1
    /\ ret.op = "pop" /\ ret.kind = "Response"

\* C4: Pipeline::pop returns None only when the queue holds no query
C4_PopNoneOnlyWhenEmpty ==
    (ret.op = "pop" /\ ret.kind = "None") => q = <<>>

C4_Witness ==
    /\ ret.op = "pop" /\ ret.kind = "None"
    /\ npop = 2 /\ nerr = 1

\* C5: whenever push returns Ok, the command of the pushed query has been
\* written to the socket
C5_PushOkIsWritten ==
    (ret.op = "push" /\ ret.kind = "Ok") => Len(wire) = Len(pushed)

\* C6: on a D, E or F reply pop returns Some(Err) with the query and the
\* kind of the error, has consumed the preamble and nothing more, and hands
\* the pipeline back
C6_ServerErrorIsReturned ==
    (PopDone /\ Aligned /\ srv[npop] \in ErrShapes) =>
        /\ ret = Ret("pop", "Err", "ResponseErr", pushed[npop], ErrVal(srv[npop]), 0, 0)
        /\ off = SumLen(srv, npop)
        /\ holder = "none"

C6_Witness ==
    /\ PopDone /\ Aligned
    /\ npop = 2 /\ srv[1] = "D" /\ srv[2] = "F"
    /\ ret.err = "ResponseErr"

C8_ResponsesSkipServerErrors ==
    ret.op = "rnext" => ret.err # "ResponseErr"

\* C9: a query that expects no data and is answered A<n> with n > 0 gets
\* Some(Err(UnexpectedData)) with the query, not a panic and not a Response
C9_UnexpectedData ==
    (PopDone /\ Aligned /\ ~expect_data(pushed[npop]) /\ srv[npop] \in DataShapes) =>
        ret = Ret("pop", "Err", "UnexpectedData", pushed[npop], <<>>,
                  DeclaredLen(srv[npop]), 0)

C9_Witness ==
    /\ PopDone /\ Aligned
    /\ pushed[npop] = UnsetSources /\ srv[npop] = "good"
    /\ ret.err = "UnexpectedData" /\ ret.a = 4

\* a data response to a query framed in words has the length n that its
\* preamble declares and k payload bytes before the end-of-response marker
WordData(d) ==
    /\ Aligned
    /\ pushed[npop].kind \in {"Ipv4Routes", "Ipv6Routes"}
    /\ srv[npop] \in DataShapes
    /\ DeclaredLen(srv[npop]) = PayloadLen(srv[npop]) + d

\* the response is iterated to the end: every word, then the end
IteratedToEnd ==
    /\ ret.err \notin {"ResponseDataUnderrun", "ResponseDataOverrun"}
    /\ ((ret.op = "next" /\ ret.kind = "None") \/ pc = "rs_pop") =>
          /\ cnt = Len(Words(srv[npop]))
          /\ off = SumLen(srv, npop)

\* C10 as stated: a data response whose preamble declares the number of
\* payload bytes before the end-of-response marker is iterated to the end
\* without an underrun or overrun error
C10_DeclaredEqualsPayload ==
    (WordData(0) /\ nerr = 0) => IteratedToEnd

\* C10: a data response of words whose preamble declares one more than the
\* number of payload bytes before the end-of-response marker is iterated to
\* the end, every word then the end, without an underrun or overrun error
C10_DeclaredIsPayloadPlusOne ==
    (WordData(1) /\ nerr = 0) => IteratedToEnd

C10_Witness ==
    /\ WordData(1) /\ nerr = 0
    /\ ret.op = "next" /\ ret.kind = "None"
    /\ cnt = 2 /\ off = SumLen(srv, npop)

\* the elements of the two-query scenario: the two IPv4 prefixes for the
\* first query, the IPv6 prefix for the second, nothing else, then the end
ExampleYield ==
    /\ ret.kind # "Err"
    /\ ret.kind = "Item" =>
          \/ npop = 1 /\ cnt = 1 /\ ret.val = SubSeq(V4Payload, 1, 11)
                      /\ ret.query = ExQueries[1]
          \/ npop = 1 /\ cnt = 2 /\ ret.val = SubSeq(V4Payload, 13, 23)
                      /\ ret.query = ExQueries[1]
          \/ npop = 2 /\ cnt = 1 /\ ret.val = V6Payload
                      /\ ret.query = ExQueries[2]
    /\ (pc = "rs_pop" /\ npop = 1) => cnt = 2
    /\ ret.kind = "None" => (npop = 2 /\ cnt = 1)

\* C11 as stated: with the stream A21 .. A15 .. the iteration of responses()
\* gives the three prefixes in order, tagged v4, v4, v6, and no other element
C11_ExampleAsWritten ==
    (op = "rnext" /\ nerr = 0 /\ srv # <<>> /\ srv[1] = "v4_21") => ExampleYield

\* C11: with the declared lengths 24 and 14 (the payload bytes plus one) the
\* iteration of responses() gives the three prefixes in order, tagged v4,
\* v4, v6, and no other element
C11_ExampleWithLengths ==
    (op = "rnext" /\ nerr = 0 /\ srv # <<>> /\ srv[1] = "v4_24") => ExampleYield

C11_Witness ==
    /\ op = "rnext" /\ nerr = 0 /\ srv = <<"v4_24", "v6_14">>
    /\ ret.kind = "None" /\ npop = 2 /\ cnt = 1 /\ buf = <<>> /\ net = <<>>

\* the number of words in the payload of a response that falls short
ShortWords(shape) == IF shape = "exact" THEN 2 ELSE 1

\* C12: when the end marker is met with seen + 1 # expect the Response gives,
\* after its items, exactly one Err(ResponseDataUnderrun(seen, expect)) and
\* is finished; A10\nabc\nC\n gives abc, then ResponseDataUnderrun(3, 10)
C12_UnderrunOnceThenFinished ==
    /\ ret.err = "ResponseDataUnderrun" =>
          /\ resp.live /\ resp.finished
          /\ ret.a = resp.seen /\ ret.b = resp.expect
          /\ resp.seen + 1 # resp.expect
          /\ cnt = ShortWords(srv[npop]) + 1
          /\ off = SumLen(srv, npop)
    /\ (nerr = 0 /\ ret.op = "next" /\ ret.kind = "None") =>
          cnt = ShortWords(srv[npop]) + 1
    /\ (nerr = 0 /\ srv = <<"abc_10">>) =>
          /\ ret.kind = "Item" => (cnt = 1 /\ ret.val = <<"a", "b", "c">>)
          /\ ret.kind = "Err" =>
                /\ cnt = 2
                /\ ret = Ret("next", "Err", "ResponseDataUnderrun", NoQuery, <<>>, 3, 10)

C12_Witness ==
    /\ nerr = 0 /\ srv = <<"abc_10">>
    /\ ret.op = "next" /\ ret.kind = "None" /\ cnt = 2
    /\ resp.finished /\ resp.seen = 3 /\ resp.expect = 10

C14_DropLeavesAligned ==
    (pc = "idle" /\ ret.op = "drop" /\ ret.kind = "Done" /\ Aligned /\ nerr = 0) =>
        off = SumLen(srv, npop)

\* C15: when clear() returns, the queue is empty with in_flight = 0 and
\* every outstanding response has been consumed, so that the next query
\* pushed meets its own response
C15_ClearConsumesAll ==
    (ret.op = "clear" /\ ret.kind = "Done" /\ nerr = 0) =>
        /\ q = <<>> /\ in_flight = 0
        /\ npop = Len(pushed) /\ Len(srv) = npop
        /\ off = SumLen(srv, npop)
        /\ buf = <<>> /\ net = <<>>

\* the drop of the Pipeline has run Responses::consume to its end and is
\* about to discard the read buffer
DropDiscards == pc = "idle" /\ holder = "pdrop" /\ ret.op = "rnext" /\ ret.kind = "None"

\* C16: when the drop of a Pipeline discards the read buffer, no read or
\* write having failed, the complete response of every transmitted query
\* has been consumed and the buffer holds no unread byte, so that a new
\* Pipeline on the Connection starts at the preamble of its own response
C16_DropDiscardsNothing ==
    (DropDiscards /\ nerr = 0) =>
        /\ npop = Len(wire) /\ Len(srv) = npop
        /\ off = SumLen(srv, npop)
        /\ buf = <<>>

\* the Ok items that the Response of the initial query gives for each reply
\* of InitialShapes
InitialItems(shape) ==
    CASE shape \in {"good", "exact"} -> <<(<<"a">>), (<<"b">>)>>
      [] shape \in {"under", "over"} -> <<(<<"a">>)>>
      [] OTHER -> <<>>

RECURSIVE FlatMap(_)
FlatMap(xs) == IF xs = <<>> THEN <<>> ELSE into_routes_queries(Head(xs)) \o FlatMap(Tail(xs))

\* f(x1) ++ ... ++ f(xk) for the reply that the initial query has had
Produced == IF srv = <<>> THEN <<>> ELSE FlatMap(InitialItems(srv[1]))

\* C17: when from_initial returns Ok the initial query has been popped and
\* the queue is f(x1) ++ ... ++ f(xk) for the items x1..xk of its response;
\* the pops that follow take these queries in that order, and there are 2k
\* of them before pop gives None (no read or write having failed)
C17_QueueIsProducedQueries ==
    /\ (ret.op = "from_initial" /\ ret.kind = "Ok" /\ nerr = 0) =>
          /\ npop = 1
          /\ pushed[1] = InitialQuery
          /\ q = Produced
    /\ (pc = "status" /\ op = "pop" /\ nerr = 0) =>
          /\ npop - 1 \in 1..Len(Produced)
          /\ query = Produced[npop - 1]
    /\ (ret.op = "pop" /\ ret.kind = "None" /\ nerr = 0) =>
          /\ npop = 1 + Len(Produced)
          /\ srv # <<>> => Len(Produced) = 2 * Len(InitialItems(srv[1]))

C17_Witness ==
    /\ ret.op = "pop" /\ ret.kind = "None" /\ nerr = 0
    /\ srv # <<>> /\ srv[1] = "good" /\ npop = 5
    /\ pushed = <<InitialQuery>> \o FlatMap(<<(<<"a">>), (<<"b">>)>>)

\* the bytes of the replies that the server has written
Replied == SumLen(srv, Len(srv))

\* C18: connect writes !!\n before any query command, then !n<id>\n, then
\* !t<secs>\n only when it pushed SetTimeout, and when it returns Ok every
\* one of these queries has had its reply and every byte of the replies has
\* been read
C18_ConnectReadsReplies ==
    /\ wire # <<>> =>
          /\ wire[1] = Handshake
          /\ Len(wire) >= 2 => \E id \in ClientIds : wire[2] = <<"!", "n">> \o id \o <<NL>>
          /\ wire = <<Handshake>> \o Cmds(SubSeq(pushed, 1, Len(wire) - 1))
    /\ (ret.op = "connect" /\ ret.kind = "Ok") =>
          /\ \E id \in ClientIds, t \in ServerTimeouts :
                wire = <<Handshake>> \o Cmds(ConnectQueries(id, t))
          /\ Len(srv) = Len(wire)
          /\ off = Replied
          /\ net = <<>>

IsPrefix(p, s) == Len(p) <= Len(s) /\ Take(s, Len(p)) = p

\* what the status parser is to return for each status line
StatusOf(line) ==
    CASE line = <<"A", "0", NL>> -> [ok |-> TRUE, data |-> TRUE, len |-> 0]
      [] line = <<"A", "1", "0", "1", NL>> -> [ok |-> TRUE, data |-> TRUE, len |-> 101]
      [] line = <<"C", NL>> -> [ok |-> TRUE, data |-> FALSE, len |-> 0]
      [] line = <<"D", NL>> -> [ok |-> FALSE, err |-> "KeyNotFound", msg |-> <<>>]
      [] line = <<"E", NL>> -> [ok |-> FALSE, err |-> "KeyNotUnique", msg |-> <<>>]
      [] line = <<"F", SP, "f", "o", "o", NL>> ->
           [ok |-> FALSE, err |-> "Other", msg |-> <<"f", "o", "o">>]

\* C19: on A0\n, A101\n, C\n, D\n, E\n and F foo\n the status parser returns
\* data length 0, data length 101, no data, KeyNotFound, KeyNotUnique and
\* Other("foo"), and the consumed length is the length of the status line
\* whatever bytes follow it
C19_StatusLines ==
    op = "response_status" =>
        \A line \in StatusLines :
            IsPrefix(line, buf) =>
                /\ ret.kind = "ok"
                /\ ret.a = Len(line)
                /\ ret.val = StatusOf(line)

C19_Witness ==
    /\ op = "response_status"
    /\ buf = <<"F", SP, "f", "o", "o", NL, "A", "1">>
    /\ ret.a = 6
    /\ ret.val.err = "Other"

\* C20: the command of every query begins with ! and ends with a newline
C20_CmdFramed ==
    op = "cmd" =>
        /\ Len(wire) = 1
        /\ Len(wire[1]) >= 2
        /\ wire[1][1] = "!"
        /\ wire[1][Len(wire[1])] = NL

C20_Witness ==
    /\ op = "cmd"
    /\ query = [kind |-> "Origins", arg |-> <<"a", NL, "b">>]
    /\ wire = <<(<<"!", "r", "a", NL, "b", ",", "o", NL>>)>>

\* the items, parsed or not, of each reply of ItemShapes
ItemWords(shape) == IF shape = "q_mid" THEN 3 ELSE 2

\* C21: an item that frames but does not parse as T is consumed and counted
\* in seen, the error is returned for that item only and the Response stays
\* live: the calls that follow give the remaining items, and the response
\* ends without a length error
C21_ItemErrorKeepsResponse ==
    /\ ret.err = "ParseItem" =>
          /\ resp.live /\ ~resp.finished /\ resp.pipeline
          /\ ret.a >= Len(ret.val) /\ ret.a >= 1
          /\ off = 3 + resp.seen
    /\ nerr = 0 => ret.err \notin {"ResponseDataUnderrun", "ResponseDataOverrun"}
    /\ (ret.op = "next" /\ ret.kind = "None" /\ nerr = 0) =>
          /\ cnt = ItemWords(srv[1])
          /\ off = SumLen(srv, 1)
    /\ (ret.op = "next" /\ ret.kind = "Item" /\ nerr = 0 /\ srv[1] = "q_mid" /\ cnt = 3) =>
          ret.val = <<"b">>

C21_Witness ==
    /\ ret.op = "next" /\ ret.kind = "Item" /\ ret.val = <<"b">>
    /\ srv = <<"q_mid">> /\ cnt = 3 /\ nerr = 0
    /\ resp.seen = 5

\* Response::next has returned the end of the traversal: None, or one of the
\* errors after which no item can follow
TraversalEnded ==
    /\ pc = "idle" /\ holder = "resp" /\ ret.op = "next"
    /\ \/ ret.kind = "None"
       \/ ret.err \in {"ResponseDataUnderrun", "ResponseDataOverrun", "Io"}

\* C22: once a Response has given its last item, or an underrun, an overrun
\* or a transport error, the next call of next() returns None
C22_NoneAfterEnd ==
    TraversalEnded => next_or_yield(resp, buf, "next").k \in {"Yield", "Finished"}

\* C22, as the code has it: after None, an underrun or an overrun the
\* Response is finished and the next call returns None; after a transport
\* error the next call returns Err(ConsumedResponse) and finishes the
\* Response, and the calls after that return None
C22_NoneAfterEndOrConsumed ==
    /\ (TraversalEnded /\ ret.err # "Io") =>
          /\ resp.finished
          /\ next_or_yield(resp, buf, "next").k = "Finished"
    /\ (TraversalEnded /\ ret.err = "Io") =>
          /\ ~resp.finished
          /\ next_or_yield(resp, buf, "next").k = "Err"
          /\ next_or_yield(resp, buf, "next").v.err = "ConsumedResponse"
          /\ next_or_yield(resp, buf, "next").r.finished
    /\ (pc = "idle" /\ holder = "resp" /\ ret.op = "next" /\ ret.err = "ConsumedResponse") =>
          /\ resp.finished
          /\ next_or_yield(resp, buf, "next").k = "Finished"

C22_Witness ==
    /\ pc = "idle" /\ holder = "resp" /\ ret.op = "next"
    /\ ret.err = "ConsumedResponse"
    /\ nerr = 1 /\ resp.finished /\ resp.seen > 0

\* C23: when a read delivers no byte while the preamble in the buffer is
\* still incomplete, pop returns Some(Err(..)): it is never found waiting for
\* the preamble after such a read
C23_EmptyReadEndsPop ==
    (pc = "status" /\ op = "pop") => ret.a = 0

\* C24: no panic is reached while a Response, a Responses or a Pipeline is
\* drained, whatever the server writes and whichever read or write fails:
\* the Finished arm of Responses::next is not taken, and Queue::pop finds a
\* query whenever in_flight > 0
C24_DrainNeverPanics ==
    /\ pc # "panic"
    /\ ret.kind # "Panic"
    /\ in_flight >= 0
    /\ in_flight <= Len(q)

C24_Witness ==
    /\ ret.op = "pdrop" /\ ret.kind = "Done"
    /\ nerr = 1
    /\ Len(srv) = 2 /\ srv[1] = "over" /\ srv[2] = "junk"
    /\ npop = 2

\* the query in hand expects data and its reply, read from its first byte
\* to its last, is the preamble A0
ZeroLengthReply ==
    /\ pc = "idle" /\ Aligned /\ srv[npop] = "A0"
    /\ expect_data(query)
    /\ off = SumLen(srv, npop)

\* C25: when a query that expects data is answered A0, pop returns
\* Some(Ok(response)) and the iteration of that response gives no item and
\* no error (a pop that returns None, or whose flush failed, is a later pop
\* that took no query from the queue)
C25_ZeroLengthIsEmpty ==
    /\ (ZeroLengthReply /\ ret.op = "pop" /\ ret.kind # "None" /\ ret.err # "Io") =>
          /\ ret.kind = "Response"
          /\ resp.live /\ resp.expect = 0 /\ resp.query = query
    /\ (ZeroLengthReply /\ ret.op = "next") =>
          /\ ret.kind = "None"
          /\ cnt = 0
    /\ (ZeroLengthReply /\ ret.op = "rnext" /\ ret.err # "Io") => ret.kind # "Err"

C25_Witness ==
    /\ ZeroLengthReply /\ ret.op = "next" /\ ret.kind = "None"
    /\ query = Ipv4Routes(AS1) /\ resp.finished /\ nerr = 0

\* C26: a flush, in push or at the head of pop, sends nothing when the room
\* max_in_flight - in_flight is below min_batch or when no query is unsent;
\* otherwise, unless a send fails, it sends the unsent queries in queue order
\* until in_flight reaches max_in_flight or none is left unsent, however few
\* they are; a failed flush has sent and counted fewer.
C26_FlushPolicy ==
    [][(pc = "idle" /\ op' \in {"push", "pop"} /\ srv' = srv) =>
         LET qf == IF op' = "push" THEN q' ELSE q
             unsent == Len(qf) - in_flight
             room == MaxInFlight - in_flight
             most == IF room < unsent THEN room ELSE unsent
             sent == Len(wire') - Len(wire)
             failed == ret'.kind = "Err" /\ ret'.err = "Io"
         IN  /\ sent >= 0
             /\ wire' = wire \o Cmds(SubSeq(qf, in_flight + 1, in_flight + sent))
             /\ (room < MinBatch \/ unsent = 0) => (sent = 0 /\ ~failed)
             /\ (room >= MinBatch /\ unsent > 0 /\ ~failed) => sent = most
             /\ failed => sent < most
             /\ in_flight' = in_flight + sent - (IF npop' = npop + 1 THEN 1 ELSE 0)
      ]_vars

\* a push whose flush sent a batch of min_batch queries, filled the window
\* and left a query unsent
C26_Witness ==
    /\ pc = "idle" /\ ret.op = "push" /\ ret.kind = "Ok"
    /\ in_flight = MaxInFlight
    /\ Len(q) = MaxInFlight + 1
    /\ npop = 1
    /\ Len(wire) = MaxInFlight + 1


\* C27: in every reachable state, whatever the interleaving of pushes, pops
\* and flushes, a flush that failed part-way through a batch included,
\* in_flight counts the queries written and not yet popped, they are the
\* first in_flight queries of the queue, and so in_flight <= queue length and
\* Queue::pop finds a query whenever in_flight > 0
C27_InFlightWithinQueue ==
    /\ in_flight \in 0..Len(q)
    /\ in_flight = Len(wire) - npop
    /\ Len(q) = Len(pushed) - npop
    /\ Cmds(Take(q, in_flight)) = Drop(wire, npop)
    /\ in_flight > 0 => q # <<>>

\* a push, after one pop, whose flush failed half-way through a batch of 100
C27_Witness ==
    /\ pc = "idle" /\ ret.op = "push" /\ ret.kind = "Err" /\ ret.err = "Io"
    /\ npop = 1
    /\ Len(q) = MaxInFlight + 1
    /\ in_flight = MaxInFlight - (MinBatch \div 2)

\* C28: the queries written and not yet popped never exceed the window:
\* in_flight <= max_in_flight in every reachable state, so that the
\* subtraction max_in_flight - in_flight of Queue::flush does not underflow
C28_WindowRespected ==
    /\ in_flight <= MaxInFlight
    /\ Len(wire) - npop <= MaxInFlight
    /\ MaxInFlight - in_flight \in 0..MaxInFlight

\* the window is full, with every query the caller has pushed
C28_Witness ==
    /\ in_flight = MaxInFlight
    /\ Len(pushed) = WindowMaxPush
    /\ Len(wire) = MaxInFlight + 1

\* the window lets a batch through and a query is queued but not sent
BatchHeldBack == Len(q) > in_flight /\ MaxInFlight - in_flight >= MinBatch

\* C29 as stated: the read of an item from a Response is a flush
\* opportunity, so once an item has been returned no batch that the window
\* allows is still held back
C29_ItemReadFlushes ==
    (pc = "idle" /\ ret.op = "next" /\ ret.kind = "Item") => ~BatchHeldBack

\* C29, amended: queries are written only by push and at the head of pop;
\* while a Response is iterated or drained nothing is written and in_flight
\* stays as it is, so a batch held back when the Response was returned is
\* still held back when the iteration ends
C29_FlushOnlyAtPushAndPop ==
    [][/\ wire' # wire => (pc = "idle" /\ op' \in {"push", "pop"})
       /\ (pc = "item" \/ op' \in {"next", "drop"}) =>
             /\ wire' = wire
             /\ in_flight' = in_flight
             /\ q' = q
      ]_vars

\* the second item of a response has been read while a pushed query is held
\* back that the window would let through
C29_Witness ==
    /\ pc = "idle" /\ ret.op = "next" /\ ret.kind = "Item" /\ cnt = 2
    /\ BatchHeldBack
    /\ in_flight = MaxInFlight - MinBatch
    /\ nerr = 0

\* C30: the kind of a length-mismatch error tells the direction of the
\* mismatch: ResponseDataUnderrun(seen, expect) is reported only when the end
\* marker came with too few payload bytes (seen + 1 < expect), and when more
\* bytes than declared were consumed the error is ResponseDataOverrun
C30_KindMatchesDirection ==
    /\ ret.err = "ResponseDataUnderrun" => ret.a + 1 < ret.b
    /\ (ret.err \in {"ResponseDataUnderrun", "ResponseDataOverrun"} /\ ret.a > ret.b) =>
          ret.err = "ResponseDataOverrun"

\* C31: a paragraph item never extends past the end-of-response marker of
\* its own response: an item returned for a response read from its first
\* byte ends before that marker and holds no marker, whatever bytes of a
\* following response are already in the buffer
C31_ParagraphWithinResponse ==
    (pc = "idle" /\ ret.op = "next" /\ ret.kind = "Item" /\ Aligned
        /\ query.kind = "MntBy") =>
          /\ off <= SumLen(srv, npop) - Len(EOR)
          /\ FindSub(ret.val, EOR) < 0

\* C32: the word parser returns the one or more bytes that precede the
\* first SPACE or newline, and reports as consumed those bytes and the SPACE
\* bytes that follow them at once, nothing else; an input that starts with
\* SPACE or newline is an error, not a word
C32_WordConsumesSpaces ==
    op = "word" =>
        LET w == LeadOut(buf, {SP, NL})
            s == LeadIn(Drop(buf, w), {SP})
        IN  /\ (buf # <<>> /\ buf[1] \in {SP, NL}) => ret.kind = "error"
            /\ ret.kind = "ok" =>
                  /\ w >= 1
                  /\ ret.val = Take(buf, w)
                  /\ ret.a = w + s

\* the input is a preamble, or the end-of-response marker, cut short
CutShort(S) == \E line \in S : Len(buf) < Len(line) /\ IsPrefix(buf, line)

\* C33: on every proper prefix of a valid preamble, the empty input
\* included, the status parser gives the incomplete outcome, and so does the
\* end-of-response parser on every proper prefix of the marker; neither
\* gives a success or an error
C33_PrefixIsIncomplete ==
    /\ (op = "response_status" /\ CutShort(Preambles)) => ret.kind = "incomplete"
    /\ (op = "end_of_response" /\ CutShort({EOR})) => ret.kind = "incomplete"

C33_Witness ==
    /\ op = "response_status"
    /\ buf = <<"F", SP, "f", SP>>
    /\ ret.kind = "incomplete"

\* C34: in from_initial the queries made from an item are pushed when that
\* item has been parsed and consumed and before a byte of the next item is
\* parsed: a push happens only between two reads, it moves nothing in the
\* read buffer, and while a read of the initial Response is in progress
\* nothing is pushed or written
C34_PushBetweenItems ==
    [][/\ (holder = "init" /\ pushed' # pushed) =>
             /\ pc = "idle" /\ ret.kind = "Item"
             /\ \E n \in 1..2 : pushed' = pushed \o Take(into_routes_queries(ret.val), n)
             /\ Len(pushed') < Len(pushed) + 2 => ret'.kind = "Err"
             /\ buf' = buf /\ off' = off /\ resp' = resp
       /\ (holder = "init" /\ pc \in {"status", "item"}) =>
             /\ pushed' = pushed /\ wire' = wire /\ q' = q /\ in_flight' = in_flight
       /\ (holder = "init" /\ pc = "idle" /\ ret.kind = "Item" /\ pc' = "item") =>
             pushed' = pushed \o into_routes_queries(ret.val)
      ]_vars

\* the queries of the first item are pushed and written, the second item
\* is in the buffer and has not been parsed
C34_Witness ==
    /\ holder = "init" /\ pc = "item" /\ cnt = 1
    /\ srv = <<"good">>
    /\ off = 5 /\ buf = <<"b", NL, "C", NL>>
    /\ pushed = <<InitialQuery, Ipv4Routes(<<"a">>), Ipv6Routes(<<"a">>)>>
    /\ Len(wire) = 3

(***************************************************************************)
(* A connection whose socket refuses every write (Connection::send returns *)
(* Err at its first write_all).  Nothing is ever put on the wire, so every *)
(* pushed query stays queued and unsent, and no response is ever read.     *)
(***************************************************************************)
BrokenMaxPush == 3

MaxWriteFails == 3

\* Pipeline::push when the send of the flush fails: the query is queued
BrokenPush ==
    /\ pc = "idle"
    /\ holder = "none"
    /\ Len(pushed) < BrokenMaxPush
    /\ \E qy \in Queries :
         /\ q' = QueuePush(q, qy)
         /\ pushed' = Append(pushed, qy)
         /\ ret' = IF FlushRange(QueuePush(q, qy), in_flight) # <<>>
                   THEN Ret("push", "Err", "Io", NoQuery, <<>>, 0, 0)
                   ELSE Ret("push", "Ok", "", NoQuery, <<>>, 0, 0)
    /\ op' = "push"
    /\ UNCHANGED <<in_flight, buf, wire, net, srv, cap, holder, pc, query, resp, rs_pipeline,
                   npop, off, al, cnt, nerr>>

\* Pipeline::pop: the flush at the head of pop_wrapped fails while a query
\* is unsent; with nothing to send it goes on to Queue::pop
BrokenPop ==
    /\ pc = "idle"
    /\ holder = "none"
    /\ IF FlushRange(q, in_flight) # <<>>
       THEN /\ op' = "pop"
            /\ ret' = Ret("pop", "Err", "Io", NoQuery, <<>>, 0, 0)
            /\ UNCHANGED <<q, in_flight, buf, wire, net, srv, cap, holder, pc, query, resp,
                           rs_pipeline, pushed, npop, off, al, cnt, nerr>>
       ELSE StartPop("pop")

\* One turn of the loop of Responses::consume under Pipeline::clear: while a
\* query is unsent, Responses::next gets Some(Err(..)) from pop_wrapped,
\* takes the pipeline back and returns the error, which the loop discards.
\* ret.a counts these turns, starting again at 1 after MaxWriteFails.
BrokenClearStep ==
    /\ pc = "idle"
    /\ holder \in {"clear", "pdrop"}
    /\ IF ~(ret.op = "rnext" /\ ret.kind = "None") /\ FlushRange(q, in_flight) # <<>>
       THEN /\ op' = "rnext"
            /\ ret' = Ret("rnext", "Err", "Io", NoQuery, <<>>,
                          IF ret.op = "rnext" THEN (ret.a % MaxWriteFails) + 1 ELSE 1, 0)
            /\ UNCHANGED <<q, in_flight, buf, wire, net, srv, cap, holder, pc, query, resp,
                           rs_pipeline, pushed, npop, off, al, cnt, nerr>>
       ELSE ClearStep

BrokenStep ==
    \/ BrokenPush
    \/ BrokenPop
    \/ Clear
    \/ DropPipeline
    \/ BrokenClearStep

SpecBroken == Init /\ [][BrokenStep]_vars

\* Pipeline::clear is a loop in one thread: once called it keeps running
SpecBrokenFair == SpecBroken /\ WF_vars(BrokenClearStep)

\* C35: Pipeline::clear, and so the drop of a Pipeline, returns after
\* finitely many steps whatever the transport does, also when queries are
\* queued but unsent and every write to the socket fails.
C35_ClearTerminates == (holder \in {"clear", "pdrop"}) ~> (holder = "none")

(***************************************************************************)
(* A server that sends a reply, whole, cut short or with a newline inside  *)
(* a payload of words, and then closes the connection.                     *)
(***************************************************************************)
StallMaxPush == 1

StallShapes == {"good", "cut", "nl_mid"}

StallPush == DoPush(Ipv4Routes(AS1), StallMaxPush)

StallRespond == ~Closed /\ Respond(StallShapes, ExRoom)

\* Pipeline::fetch returning Ok(0) to the loop of next_or_yield or of
\* pop_wrapped; ret.a counts the empty reads, starting again at 1 after
\* MaxEmptyReads
StallEmptyRead ==
    /\ AtFetch
    /\ ReadGivesNothing
    /\ ret' = [ret EXCEPT !.a = (@ % MaxEmptyReads) + 1]
    /\ UNCHANGED <<q, in_flight, buf, wire, net, srv, cap, holder, pc, op, query, resp,
                   rs_pipeline, pushed, npop, off, al, cnt, nerr>>

StallStep ==
    \/ StallPush
    \/ Pop
    \/ Next
    \/ DropResponse
    \/ StatusStep
    \/ ItemStep
    \/ StallEmptyRead
    \/ StallRespond
    \/ Close

SpecStall == InitWith(ConnectCapacity) /\ [][StallStep]_vars

\* Response::next is a loop in one thread: once called, it parses and reads
\* for as long as it has not returned
SpecStallFair == SpecStall /\ WF_vars(StatusStep \/ ItemStep \/ StallEmptyRead)

\* C36: a call of Response::next returns once the server has closed the
\* connection and all its bytes have been read, also when the bytes at the
\* head of the buffer are neither the end marker nor an item.
C36_NextTerminates == (pc = "item" /\ Closed /\ net = <<>>) ~> (pc = "idle")

\* C37: a push whose send fails returns Err and leaves its query at the back
\* of the queue, unsent and not counted in in_flight; the commands on the
\* wire are always those of the first pushed queries, each once and in the
\* order of the pushes, the queue holds the pushed queries not yet popped,
\* and a push that returns Ok leaves no query of the queue unsent.
C37_FailedPushKeepsQuery ==
    /\ (op = "push" /\ ret.kind = "Err") =>
          /\ q # <<>>
          /\ q[Len(q)] = pushed[Len(pushed)]
          /\ in_flight < Len(q)
          /\ Len(wire) < Len(pushed)
    /\ (op = "push" /\ ret.kind = "Ok") => in_flight = Len(q)
    /\ Len(wire) <= Len(pushed)
    /\ wire = Cmds(Take(pushed, Len(wire)))
    /\ q = Drop(pushed, npop)
    /\ in_flight = Len(wire) - npop

\* the first push failed, the second sent both queries
C37_Witness ==
    /\ op = "push" /\ ret.kind = "Ok"
    /\ nerr = 1 /\ npop = 0
    /\ pushed = <<Ipv4Routes(AS1), Ipv6Routes(AS1)>>
    /\ q = pushed
    /\ in_flight = 2
    /\ wire = Cmds(pushed)

(***************************************************************************)
(* A caller that pushes one query more than the window lets through and    *)
(* then pops until the queue is empty, with a server that answers each     *)
(* query it has received.                                                  *)
(***************************************************************************)
LiveMaxPush == 1001

LiveMaxPop == 102

\* no write fails
LivePush == DoPush(WindowQuery, LiveMaxPush) /\ nerr' = nerr

LivePop ==
    /\ Len(pushed) = LiveMaxPush
    /\ npop < LiveMaxPop
    /\ Pop
    /\ nerr' = nerr

\* no read fails
LiveStatusStep == StatusStep /\ nerr' = nerr

LiveRespond == Respond({"D"}, WindowRoom)

LiveStep ==
    \/ LivePush
    \/ LivePop
    \/ LiveStatusStep
    \/ LiveRespond

SpecLive == Init /\ [][LiveStep]_vars

\* the caller runs on (its pushes, then its pops, each to its end), and the
\* server answers
SpecLiveFair ==
    SpecLive /\ WF_vars(LivePush \/ LivePop \/ LiveStatusStep) /\ WF_vars(LiveRespond)

\* C38: with the window of 1000 and the minimum batch of 100, and with no
\* read or write failing, a query that is queued but not sent is sent in the
\* end when the caller keeps popping.
C38_UnsentIsSent == (Len(wire) < Len(pushed)) ~> (Len(wire) = Len(pushed))

\* the query held back at in_flight = 1000 went out with the flush of the
\* 101st pop
C38_Witness ==
    /\ nerr = 0
    /\ Len(pushed) = MaxInFlight + 1
    /\ Len(wire) = MaxInFlight + 1
    /\ npop = MinBatch + 1
    /\ in_flight = MaxInFlight - MinBatch

\* C39: the command written for a query holds one newline and no more, and
\* the newline is its last byte, whatever the arguments of the query
C39_OneNewline ==
    op = "cmd" =>
        /\ Len(wire) = 1
        /\ wire[1] # <<>>
        /\ {i \in 1..Len(wire[1]) : wire[1][i] = NL} = {Len(wire[1])}

(***************************************************************************)
(* A caller that pushes one query more than the window lets through and    *)
(* then clears or drops the pipeline, with a server that answers each      *)
(* query it has received, and no read or write failing.                    *)
(***************************************************************************)
FlushClear == Len(pushed) = LiveMaxPush /\ Clear

FlushDrop == Len(pushed) = LiveMaxPush /\ DropPipeline

FlushClearStep == ClearStep /\ nerr' = nerr

FlushStep ==
    \/ LivePush
    \/ FlushClear
    \/ FlushDrop
    \/ FlushClearStep
    \/ LiveStatusStep
    \/ LiveRespond

SpecFlush == Init /\ [][FlushStep]_vars

\* Pipeline::clear or the drop has returned
Cleared == pc = "idle" /\ holder = "none" /\ ret.op \in {"clear", "pdrop"} /\ ret.kind = "Done"

\* C40: when Pipeline::clear or the drop of a Pipeline returns, no read or
\* write having failed, every pushed query has been written, also those that
\* were queued and unsent when it was called, and a response has been read
\* for each.
C40_ClearSendsUnsent ==
    /\ Cleared =>
          /\ Len(wire) = Len(pushed)
          /\ wire = Cmds(pushed)
          /\ npop = Len(pushed)
          /\ Len(srv) = Len(pushed)
          /\ off = Len(srv) * Len(Bytes("D"))
          /\ net = <<>> /\ in_flight = 0
    /\ (holder \in {"clear", "pdrop"} /\ Len(wire) < Len(pushed)) => in_flight > 0

\* clear was called with 1000 queries in flight and one unsent; the flush of
\* its 101st pop has sent the query, and clear goes on
C40_Witness ==
    /\ holder = "clear"
    /\ Len(pushed) = MaxInFlight + 1
    /\ wire = Cmds(pushed)
    /\ npop = MinBatch + 1
    /\ in_flight = MaxInFlight - MinBatch

====
